---- MODULE Spec2Model ----
(***************************************************************************)
(* A model of the SpecClient connection substrate: the dial loop and the   *)
(* receive loop (SpecConnection.makeConnection / connectionHandler), the   *)
(* SpecConnection object (state, channel registry, reply table, outgoing   *)
(* buffer and its writer), SpecChannel registration, and the per-frame     *)
(* dispatch greenlets.  Scheduling is gevent's: one greenlet runs at a     *)
(* time and yields only where the code blocks; a spawned greenlet starts   *)
(* at the spawner's next yield, in spawn order.  On top of it: the request *)
(* methods of SpecConnection, the wait objects (SpecWaitObject), command   *)
(* execution and cancellation (SpecCommand), and the events dispatcher     *)
(* (SpecEventsDispatcher.connect / disconnect / emit).                     *)
(***************************************************************************)
EXTENDS Integers, Sequences, FiniteSets, TLC

(* ------------------------------------------------------------------ *)
(* Program constants                                                   *)
(* ------------------------------------------------------------------ *)
DISCONNECTED == 1
PORTSCANNING == 2
WAITINGFORHELLO == 3
CONNECTED == 4

MIN_PORT == 6510
MAX_PORT == 6530
DefaultPort == 6789

DOREG == 0
DONTREG == 1
WAITREG == 2

\* Python None for conn.serverVersion, conn.socket_write_event, channel.value
NoVersion == 0
\* conn.serverVersion before its first assignment: __getattr__ raises
NoAttribute == -1
NoWatcher == 0
NoValue == 0

(* ------------------------------------------------------------------ *)
(* Bounds of the model                                                 *)
(* ------------------------------------------------------------------ *)
MsgLen == 2          \* bytes of one message's sending string
MaxUserMsgs == 2     \* send, register and unregister calls of the user
MaxReplies == 2      \* requests with reply issued in one behaviour
MaxDisruptions == 1  \* peer closes plus local disconnect() calls
MaxFd == 2           \* socket descriptors the OS hands out
MaxEvents == 2       \* EVENT frames the peer sends in one behaviour
NReceivers == 2      \* receivers connected to a channel's valueChanged
MaxSlots == 3        \* callables the user connects to one (sender, signal)
MaxWeak == 3         \* weakly held callables connected to the two signals
MaxDials == 23       \* create_connection calls of one port scan
MaxDispOps == 3      \* connect and disconnect calls in one behaviour
MaxUpdates == 3      \* calls of the update method of one channel
MaxInvocations == 3  \* invocations of one command object
MaxCounterUpdates == 4  \* count updates delivered to one counter

Versions == {2, 3}
Fds == 1..MaxFd

\* channel names as path components ('var/A/k' is <<"var","A","k">>)
ErrorChan == <<"error">>
SimulChan == <<"status", "simulate">>
VarA == <<"var", "A">>
VarAk == <<"var", "A", "k">>
UserNames == {VarA, VarAk}
\* the order in which receivers of a connection signal are walked
NameOrder == <<ErrorChan, SimulChan, VarA, VarAk>>

VARIABLES
  state,                  \* conn.state
  connected,              \* conn.connected
  serverVersion,          \* conn.serverVersion
  scanport,               \* conn.scanport
  port,                   \* conn.port
  socket,                 \* conn.socket: [fd, open]
  registeredChannels,     \* conn.registeredChannels: name -> SpecChannel
  registeredReplies,      \* conn.registeredReplies: set of reply ids
  connected_event,        \* conn.connected_event (latch)
  completed_writing_event,\* conn._completed_writing_event
  outgoing_queue,         \* "".join(conn.outgoing_queue): the unsent bytes
  socket_write_event,     \* conn.socket_write_event: NoWatcher or the fd watched
  waiting,                \* senders blocked in _completed_writing_event.wait()
  handler,                \* TRUE while a connectionHandler greenlet is alive
  parsing,                \* the handler is in its frame loop (not in recv)
  tasks,                  \* greenlets spawned and not yet started (FIFO)
  running,                \* channel.update greenlets suspended inside a receiver
  nextId,                 \* SpecReply id allocator
  replyDone,              \* reply id -> number of times reply.update ran
  eof,                    \* the peer closed its end of the current socket
  disruptions,            \* peer closes and local disconnects so far
  nsent,                  \* send, register and unregister calls so far
  nevents,                \* EVENT frames received so far
  wire,                   \* bytes written to the current socket, in order
  enq,                    \* bytes the current socket is due, in enqueue order
  serverReg,              \* names REGISTERed and not UNREGISTERed this session
  returned,               \* wait=True sends that returned: [msg, unsent]
  lastEmit,               \* the last connection signal emitted, as observed
  delivered,              \* receiver -> the updates it was invoked with
  lastCall,               \* the last send_msg_* call of the user, as observed
  waiter,                 \* a SpecWaitObject and the greenlet waiting on it
  cmdTask,                \* the greenlet executeCommand(wait=False) returned
  receivers,              \* connections[senderId][signal] of the dispatcher
  emitLog,                \* the last emit on that list, as observed
  connections,            \* dispatcher: (sender, signal) -> list of Receiver
  alive,                  \* callables the user still holds a reference to
  emitting,               \* the emit whose receiver loop is under way
  lastOp,                 \* the last connect or disconnect, as observed
  peers,                  \* port -> the name of the server listening on it
  dialled,                \* the port of the last create_connection call
  ndials,                 \* create_connection calls made in scan mode
  raised,                 \* an exception has left the dispatch of a frame
  channel,                \* a SpecChannel object: its access path and value
  updLog,                 \* the last call of its update method, as observed
  cmdObj,                 \* a SpecCommandA object and its invocations
  counter                 \* a counter facade (SpecCounterA, SpecCounter)

connVars == <<state, connected, serverVersion, scanport, port, socket,
              connected_event>>
chanVars == <<registeredChannels, serverReg>>
replyVars == <<registeredReplies, nextId, replyDone>>
sendVars == <<completed_writing_event, outgoing_queue, socket_write_event,
              waiting, nsent, wire, enq, returned>>
loopVars == <<handler, parsing, tasks, eof, disruptions>>
evVars == <<running, nevents, delivered>>
weakVars == <<connections, alive, emitting, lastOp>>
dispVars == <<receivers, emitLog, weakVars>>
userVars == <<lastCall, waiter, cmdTask, dispVars>>
nonCallVars == <<waiter, cmdTask, dispVars>>
nonWaitVars == <<lastCall, cmdTask, dispVars>>
nonCmdVars == <<lastCall, waiter, dispVars>>
nonDispVars == <<lastCall, waiter, cmdTask>>
netVars == <<peers, dialled, ndials, raised>>
objVars == <<channel, updLog, cmdObj, counter>>
vars == <<connVars, chanVars, replyVars, sendVars, loopVars, evVars, lastEmit,
          userVars, netVars, objVars>>

(* ------------------------------------------------------------------ *)
(* Pure helpers                                                        *)
(* ------------------------------------------------------------------ *)
\* a message: opcode, channel name, serial number
Msg(cmd, name, sn) == [cmd |-> cmd, name |-> name, sn |-> sn]

\* message.sendingString(): the message's bytes, in order
sendingString(m) == [i \in 1..MsgLen |-> [msg |-> m, part |-> i]]

NoSocket == [fd |-> 0, open |-> FALSE]

\* SpecChannel.__init__: the server-visible name of a channel name
spec_chan_name(n) ==
  IF Len(n) >= 3 /\ n[1] = "var" THEN SubSeq(n, 1, 2) ELSE n

isSpecConnected(st) == st = CONNECTED

(* ------------------------------------------------------------------ *)
(* Send path.  A context X carries the fields a handler updates as it  *)
(* runs: q (outgoing_queue), w (socket_write_event), enq, reg (the        *)
(* registry), sreg (serverReg), ok (FALSE once an exception escaped).  *)
(* ------------------------------------------------------------------ *)
Ctx(q, w, e, reg, sreg) ==
  [q |-> q, w |-> w, enq |-> e, reg |-> reg, sreg |-> sreg, ok |-> TRUE]

\* __send_msg_no_reply(message), wait=False; sk is conn.socket
send_msg_no_reply(X, m, sk) ==
  LET X1 == [X EXCEPT !.q = X.q \o sendingString(m),
                      !.enq = X.enq \o sendingString(m)]
  IN IF X.w = NoWatcher
     THEN IF sk.open
          THEN [X1 EXCEPT !.w = sk.fd]
          ELSE [X1 EXCEPT !.ok = FALSE]     \* socket.fileno() raises
     ELSE X1

\* the queue left after socket.send() accepted `sent` bytes of `buffer`
RemainingAfterSend_Resend(buffer, sent) ==
  SubSeq(buffer, sent, Len(buffer))

RemainingAfterSend(buffer, sent) ==
  SubSeq(buffer, sent + 1, Len(buffer))


(* ------------------------------------------------------------------ *)
(* SpecChannel                                                         *)
(* ------------------------------------------------------------------ *)
\* SpecChannel.__init__: the fields of a new channel object
NewChannel(flag) ==
  [registrationFlag |-> flag, isdisconnected |-> TRUE,
   registered |-> FALSE, value |-> NoValue]

\* conn.send_msg_register(chanName): NotConnected unless CONNECTED
send_msg_register(X, n, st, sk) ==
  IF isSpecConnected(st)
  THEN LET X1 == send_msg_no_reply(X, Msg("REGISTER", n, 0), sk)
       IN [X1 EXCEPT !.sreg = @ \cup {n}]
  ELSE [X EXCEPT !.ok = FALSE]

\* conn.send_msg_unregister(chanName): NotConnected unless CONNECTED
send_msg_unregister(X, n, st, sk) ==
  IF isSpecConnected(st)
  THEN LET X1 == send_msg_no_reply(X, Msg("UNREGISTER", n, 0), sk)
       IN [X1 EXCEPT !.sreg = @ \ {n}]
  ELSE [X EXCEPT !.ok = FALSE]

\* SpecChannel.register() of channel c named n: <<context, channel>>
chan_register(X, n, c, st, sk) ==
  IF spec_chan_name(n) # n
  THEN <<X, c>>
  ELSE LET X1 == send_msg_register(X, n, st, sk)
       IN IF X1.ok THEN <<X1, [c EXCEPT !.registered = TRUE]>>
                   ELSE <<X1, c>>

\* SpecChannel.connected() of channel c named n: <<context, channel>>
chan_connected(X, n, c, st, sk) ==
  LET flag == IF c.registrationFlag = WAITREG /\ c.isdisconnected
              THEN DOREG ELSE c.registrationFlag
      c1 == [c EXCEPT !.registrationFlag = flag, !.isdisconnected = FALSE]
  IN IF flag = DOREG /\ ~c1.registered
     THEN chan_register(X, n, c1, st, sk)
     ELSE <<X, c1>>

\* registerChannel lines 253-258 for a name that is its own server-visible
\* name (no recursion); an exception of the constructor leaves X.ok FALSE
register_one(X, n, flag, st, sk) ==
  IF n \in DOMAIN X.reg
  THEN X
  ELSE LET r == IF isSpecConnected(st)
                THEN chan_connected(X, n, NewChannel(flag), st, sk)
                ELSE <<X, NewChannel(flag)>>
       IN IF ~r[1].ok
          THEN r[1]
          ELSE [r[1] EXCEPT
                  !.reg = (n :> [r[2] EXCEPT !.registered = TRUE]) @@ r[1].reg]

\* SpecConnection.registerChannel(chanName, slot, registrationFlag); every
\* exception is caught and logged at line 268
registerChannel(X, n, flag, st, sk) ==
  IF n \in DOMAIN X.reg
  THEN X
  ELSE LET r == IF isSpecConnected(st)
                THEN chan_connected(X, n, NewChannel(flag), st, sk)
                ELSE <<X, NewChannel(flag)>>
       IN IF ~r[1].ok
          THEN [r[1] EXCEPT !.ok = TRUE]
          ELSE LET X2 == [r[1] EXCEPT !.reg = (n :> r[2]) @@ r[1].reg]
                   p == spec_chan_name(n)
                   X3 == IF p # n THEN register_one(X2, p, DOREG, st, sk)
                                  ELSE X2
                   X4 == [X3 EXCEPT !.reg[n].registered = TRUE, !.ok = TRUE]
                   v == X4.reg[p].value
               IN IF v # NoValue THEN [X4 EXCEPT !.reg[n].value = v] ELSE X4

\* SpecConnection.unregisterChannel(chanName); NotConnected escapes from
\* channel.unregister() before the entry is deleted
unregisterChannel(X, n, st, sk) ==
  IF n \notin DOMAIN X.reg
  THEN X
  ELSE LET X1 == send_msg_unregister(X, spec_chan_name(n), st, sk)
       IN IF ~X1.ok
          THEN X1
          ELSE [X1 EXCEPT !.reg = [m \in DOMAIN X1.reg \ {n} |-> X1.reg[m]]]

RECURSIVE EmitConnected(_, _, _, _)
\* SpecEventsDispatcher.emit(conn, 'connected'): channel.connected() of every
\* live channel, from the i-th name on; emit logs what a receiver raises
EmitConnected(X, i, st, sk) ==
  IF i > Len(NameOrder)
  THEN X
  ELSE LET n == NameOrder[i]
       IN IF n \in DOMAIN X.reg
          THEN LET r == chan_connected(X, n, X.reg[n], st, sk)
               IN EmitConnected([r[1] EXCEPT !.reg[n] = r[2], !.ok = TRUE],
                                i + 1, st, sk)
          ELSE EmitConnected(X, i + 1, st, sk)

CurCtx ==
  Ctx(outgoing_queue, socket_write_event, enq, registeredChannels, serverReg)

Commit(X) ==
  /\ outgoing_queue' = X.q
  /\ socket_write_event' = X.w
  /\ enq' = X.enq
  /\ registeredChannels' = X.reg
  /\ serverReg' = X.sreg

\* the service channels SpecConnection.__init__ registers (lines 208-209)
InitCtx ==
  LET X0 == Ctx(<<>>, NoWatcher, <<>>, <<>>, {})
      X1 == registerChannel(X0, ErrorChan, DOREG, DISCONNECTED, NoSocket)
  IN registerChannel(X1, SimulChan, DOREG, DISCONNECTED, NoSocket)

(* ------------------------------------------------------------------ *)
(* Frames from the peer, and spawned greenlets                          *)
(* ------------------------------------------------------------------ *)
ScanName == "main"
PeerNames == {"main"}

Frame(cmd, ident, sn, vers, chan, data) ==
  [cmd |-> cmd, ident |-> ident, sn |-> sn, vers |-> vers,
   chan |-> chan, data |-> data]

HelloReplyFrames ==
  {Frame("HELLO_REPLY", i, 0, v, <<>>, 0) : i \in PeerNames, v \in Versions}
ReplyFrames == {Frame("REPLY", "", sn, 0, <<>>, 0) : sn \in 0..MaxReplies}
EventFrame(k) == Frame("EVENT", "", 0, 0, VarA, k)
\* the peer numbers the updates of var/A in the order it sends them
NextEventFrames ==
  IF nevents < MaxEvents THEN {EventFrame(nevents + 1)} ELSE {}

PeerFrames == HelloReplyFrames \cup ReplyFrames

Task(kind, id, vers, data) ==
  [kind |-> kind, id |-> id, vers |-> vers, data |-> data]

\* what an observer of a connection signal sees when it is emitted: the
\* state, the latch, serverVersion, and for 'connected' the version (hv) of
\* the HELLO_REPLY behind it and the state (hs) that frame was dispatched in
NoEmit == [sig |-> "none", st |-> DISCONNECTED, latch |-> FALSE,
           sv |-> NoVersion, hv |-> NoVersion, hs |-> DISCONNECTED]

\* SpecConnection.checkourversion(name)
checkourversion(name) == IF scanport THEN name = ScanName ELSE TRUE

\* connectionHandler line 123: the reply table after the reply to sn was found
RepliesAfterLookup_Keep(replies, sn) == replies

RepliesAfterLookup(replies, sn) == replies \ {sn}

(* ------------------------------------------------------------------ *)
(* SpecWaitObject: the object's fields and the position of the greenlet *)
(* that waits on it                                                     *)
(* ------------------------------------------------------------------ *)
\* type and data of a REPLY in one number: the value read, or the marker of
\* a reply of type ERROR
ReplyData == 7
ReplyError == -1

\* the replies to requests with reply, plain and of type ERROR
WaitReplyFrames ==
  {Frame("REPLY", "", sn, 0, <<>>, d) :
     sn \in 1..MaxReplies, d \in {ReplyData, ReplyError}}

\* SpecWaitObject.__init__, and the greenlet before it calls a wait function.
\* pc: idle, waitConn (in connected_event.wait), waitReply (in
\* spec_reply_arrived_event.wait), waitUpd (in channel_updated_event.wait),
\* spin (in the loop of line 132 with the event set: wait returns at once and
\* the greenlet never yields), done.  cwu is channelWasUnregistered (False,
\* True, 2 as 0, 1, 2).  finite: the caller passed a timeout; armed: a timer
\* runs for this wait.  Observed: gotError (the reply that woke the greenlet
\* was of type ERROR), nupd (valueChanged calls received), woke (the nupd at
\* which the event was first set), selfReg (waitChannelUpdate found the
\* channel unregistered and registered it)
NoWait ==
  [pc |-> "idle", op |-> "none", finite |-> FALSE, armed |-> FALSE,
   waitValue |-> NoValue, value |-> NoValue, cwu |-> 0,
   replyEv |-> FALSE, updEv |-> FALSE, replyId |-> 0, result |-> "none",
   gotError |-> FALSE, nupd |-> 0, woke |-> 0, selfReg |-> FALSE]

\* one greenlet runs at a time: nothing else runs while the waiting greenlet
\* loops without yielding
Scheduled == waiter.pc # "spin"

\* SpecWaitObject.replyArrived(reply), called by reply.update in the
\* greenlet the handler spawned; the exception ends that greenlet
replyArrived(wo, data) ==
  [wo EXCEPT !.replyEv = TRUE,
             !.value = IF data = ReplyError THEN @ ELSE data,
             !.gotError = IF wo.pc = "waitReply" /\ ~wo.replyEv
                          THEN data = ReplyError ELSE @]

\* SpecWaitObject.channelUpdated(channelValue)
channelUpdated_NoSkip(wo, val) ==
  [wo EXCEPT !.value = val, !.updEv = TRUE, !.nupd = @ + 1,
             !.woke = IF wo.updEv THEN @ ELSE wo.nupd + 1]

channelUpdated(wo, val) ==
  IF wo.cwu = 1
  THEN [wo EXCEPT !.cwu = 2, !.nupd = @ + 1]
  ELSE [wo EXCEPT !.value = val, !.updEv = TRUE, !.nupd = @ + 1,
                  !.woke = IF wo.updEv THEN @ ELSE wo.nupd + 1]

(* ------------------------------------------------------------------ *)
(* SpecCommandA: a command started with wait=False and its greenlet     *)
(* ------------------------------------------------------------------ *)
\* the greenlet t of executeCommand: none yet, running (blocked in
\* wait_end_of_spec_cmd), killed or dropped by the caller, or done; id is
\* the id of the command's reply
NoCommand == [pc |-> "none", id |-> 0]

\* SpecCommandA.replyArrived(reply): _reply_arrived_event is set and a
\* greenlet still blocked in wait_end_of_spec_cmd ends
commandReplyArrived(t) ==
  IF t.pc = "running" THEN [t EXCEPT !.pc = "done"] ELSE t

(* ------------------------------------------------------------------ *)
(* SpecConnection.handle_close, specDisconnected, specConnected        *)
(* ------------------------------------------------------------------ *)
\* the same, were 'disconnected' emitted whatever the state was
specDisconnected_Always ==
  /\ state' = DISCONNECTED
  /\ lastEmit' = [sig |-> "disconnected", st |-> DISCONNECTED,
                  latch |-> connected_event, sv |-> NoVersion,
                  hv |-> NoVersion, hs |-> DISCONNECTED]
  /\ connected_event' = FALSE

\* specDisconnected(): 'disconnected' is emitted, then the latch is cleared
specDisconnected ==
  /\ state' = DISCONNECTED
  /\ IF state = CONNECTED
     THEN /\ lastEmit' = [sig |-> "disconnected", st |-> DISCONNECTED,
                          latch |-> connected_event, sv |-> NoVersion,
                          hv |-> NoVersion, hs |-> DISCONNECTED]
          /\ connected_event' = FALSE
     ELSE UNCHANGED <<lastEmit, connected_event>>

\* handle_close(); before the first connection conn.socket does not exist
\* and the attribute lookup at line 345 raises
handle_close ==
  /\ connected' = FALSE
  /\ serverVersion' = NoVersion
  /\ IF socket = NoSocket
     THEN UNCHANGED <<socket, registeredChannels, serverReg, state, lastEmit,
                      connected_event>>
     ELSE /\ socket' = [socket EXCEPT !.open = FALSE]
          /\ registeredChannels' = <<>>
          /\ serverReg' = {}
          /\ specDisconnected

(* ------------------------------------------------------------------ *)
(* The dial loop and the receive loop                                  *)
(* ------------------------------------------------------------------ *)
\* makeConnection lines 46-50: the port the next attempt dials
DialPort ==
  IF scanport
  THEN IF port = 0 \/ port > MAX_PORT THEN MIN_PORT ELSE port + 1
  ELSE port

\* the servers of the host: none listens outside ScanPorts
NoServer == "none"
ScanPorts == MIN_PORT..MAX_PORT
NoPeers == [p \in ScanPorts |-> NoServer]

\* create_connection((host, p)) succeeds.  Without port scan the server's
\* port is the user's and whether it accepts is the environment's choice
Listening(p) == scanport => (p \in ScanPorts /\ peers[p] # NoServer)

\* makeConnection lines 52-56 in scan mode: create_connection raised
\* socket.error; conn.port keeps the port that was tried
DialFail ==
  /\ Scheduled
  /\ ~handler
  /\ scanport
  /\ ~Listening(DialPort)
  /\ ndials < MaxDials
  /\ port' = DialPort
  /\ dialled' = DialPort
  /\ ndials' = ndials + 1
  /\ UNCHANGED <<state, connected, serverVersion, scanport, socket,
                 connected_event, chanVars, replyVars, sendVars, loopVars,
                 evVars, lastEmit, userVars, peers, raised, objVars>>

\* makeConnection: create_connection succeeded and the handler greenlet it
\* spawned starts (connectionHandler lines 65-76)
DialOk(fd) ==
  /\ Scheduled
  /\ ~handler
  /\ Listening(DialPort)
  /\ scanport => ndials < MaxDials
  /\ dialled' = DialPort
  /\ ndials' = IF scanport THEN ndials + 1 ELSE ndials
  /\ port' = IF scanport THEN DialPort - 1 ELSE port
  /\ connected' = TRUE
  /\ state' = WAITINGFORHELLO
  /\ socket' = [fd |-> fd, open |-> TRUE]
  /\ Commit(send_msg_no_reply(
              [CurCtx EXCEPT !.enq = outgoing_queue],
              Msg("HELLO", <<>>, 0), socket'))
  /\ handler' = TRUE
  /\ parsing' = FALSE
  /\ eof' = FALSE
  /\ wire' = <<>>
  /\ UNCHANGED <<serverVersion, scanport, connected_event, replyVars,
                 completed_writing_event, waiting, nsent, returned,
                 tasks, disruptions, evVars, lastEmit, userVars, peers,
                 raised, objVars>>

\* socket.recv() returns bytes: the handler enters its frame loop
Recv ==
  /\ Scheduled
  /\ handler /\ ~parsing /\ tasks = <<>>
  /\ socket.open /\ ~eof
  /\ parsing' = TRUE
  /\ UNCHANGED <<connVars, chanVars, replyVars, sendVars, handler, tasks,
                 eof, disruptions, evVars, lastEmit, userVars, netVars, objVars>>

\* no complete frame is left in the buffer: back to socket.recv()
EndChunk ==
  /\ Scheduled
  /\ handler /\ parsing /\ tasks = <<>>
  /\ parsing' = FALSE
  /\ UNCHANGED <<connVars, chanVars, replyVars, sendVars, handler, tasks,
                 eof, disruptions, evVars, lastEmit, userVars, netVars, objVars>>

\* socket.recv() returns "" or raises: handle_close(), the handler ends
RecvClosed ==
  /\ Scheduled
  /\ handler /\ ~parsing /\ tasks = <<>>
  /\ eof \/ ~socket.open
  /\ handle_close
  /\ handler' = FALSE
  /\ UNCHANGED <<scanport, port, replyVars, sendVars, parsing, tasks,
                 eof, disruptions, evVars, userVars, netVars, objVars>>

\* connectionHandler lines 115-126: a REPLY frame
DispatchReply(f) ==
  /\ IF f.sn > 0 /\ f.sn \in registeredReplies
     THEN /\ registeredReplies' = RepliesAfterLookup(registeredReplies, f.sn)
          /\ tasks' = <<Task("reply", f.sn, 0, f.data)>>
     ELSE UNCHANGED <<registeredReplies, tasks>>
  /\ UNCHANGED <<connVars, chanVars, nextId, replyDone, lastEmit>>

\* connectionHandler lines 127-135: an EVENT frame
DispatchEvent(f) ==
  /\ tasks' = IF f.chan \in DOMAIN registeredChannels
              THEN <<Task("update", 0, 0, f.data)>>
              ELSE tasks
  /\ UNCHANGED <<connVars, chanVars, replyVars, lastEmit>>

\* connectionHandler lines 136-149: a HELLO_REPLY frame
DispatchHelloReply(f) ==
  IF checkourversion(f.ident)
  THEN /\ serverVersion' = f.vers
       /\ tasks' = <<Task("specConnected", 0, f.vers, state)>>
       /\ UNCHANGED <<state, connected, scanport, port, socket,
                      connected_event, chanVars, replyVars, lastEmit>>
  ELSE /\ handle_close
       /\ port' = IF scanport THEN port + 1 ELSE port
       /\ UNCHANGED <<scanport, replyVars, tasks>>

\* connectionHandler lines 112-149: the dispatch of the complete frame f
DispatchFrame(f) ==
  /\ Scheduled
  /\ handler /\ parsing /\ tasks = <<>>
  /\ CASE f.cmd = "REPLY" -> DispatchReply(f)
       [] f.cmd = "EVENT" -> DispatchEvent(f)
       [] OTHER -> DispatchHelloReply(f)
  /\ nevents' = IF f.cmd = "EVENT" THEN nevents + 1 ELSE nevents
  /\ UNCHANGED <<sendVars, eof, disruptions, running, delivered, userVars,
                 peers, dialled, ndials, objVars>>

\* the frame loop dispatches the next complete frame f of the received
\* bytes; it sleeps after a spawn, so it runs on only once the spawned
\* greenlet has started
Dispatch(f) ==
  /\ DispatchFrame(f)
  /\ UNCHANGED <<handler, parsing, raised>>

\* the same when an exception is raised in the sleep that follows the spawn
\* (the one point of the dispatch where other greenlets run): lines 150-152
\* set the local receivedStrings and raise again, which ends the handler
\* greenlet; handle_close is not called
DispatchRaises(f) ==
  /\ DispatchFrame(f)
  /\ ~raised
  /\ tasks' # <<>>
  /\ handler' = FALSE
  /\ parsing' = FALSE
  /\ raised' = TRUE

\* the greenlet of conn.specConnected starts
RunSpecConnected ==
  /\ Scheduled
  /\ tasks # <<>> /\ Head(tasks).kind = "specConnected"
  /\ tasks' = Tail(tasks)
  /\ state' = CONNECTED
  /\ IF state # CONNECTED
     THEN /\ connected_event' = TRUE
          /\ lastEmit' = [sig |-> "connected", st |-> CONNECTED,
                          latch |-> TRUE, sv |-> serverVersion,
                          hv |-> Head(tasks).vers, hs |-> Head(tasks).data]
          /\ Commit(EmitConnected(CurCtx, 1, CONNECTED, socket))
     ELSE UNCHANGED <<connected_event, lastEmit, outgoing_queue,
                      socket_write_event, enq, chanVars>>
  /\ UNCHANGED <<connected, serverVersion, scanport, port, socket, replyVars,
                 completed_writing_event, waiting, nsent, wire,
                 returned, handler, parsing, eof, disruptions, evVars,
                 userVars, netVars, objVars>>

\* the greenlet of reply.update starts: the future is completed and the
\* callback stored with the reply (a wait object's replyArrived) is called
RunReplyUpdate ==
  /\ Scheduled
  /\ tasks # <<>> /\ Head(tasks).kind = "reply"
  /\ tasks' = Tail(tasks)
  /\ replyDone' = [replyDone EXCEPT ![Head(tasks).id] = @ + 1]
  /\ waiter' = IF Head(tasks).id = waiter.replyId
               THEN replyArrived(waiter, Head(tasks).data) ELSE waiter
  /\ cmdTask' = IF Head(tasks).id = cmdTask.id
                THEN commandReplyArrived(cmdTask) ELSE cmdTask
  /\ UNCHANGED <<connVars, chanVars, registeredReplies, nextId, sendVars,
                 handler, parsing, eof, disruptions, evVars, lastEmit,
                 lastCall, dispVars, netVars, objVars>>

\* SpecEventsDispatcher.emit(channel, 'valueChanged', (val, name)): the
\* receivers from..stop are called in connection order; receiver `stop`
\* blocks unless it is the last one, and the greenlet is left suspended in it;
\* a waiting SpecWaitObject connected its channelUpdated last
EmitValueChanged(val, from, stop) ==
  /\ waiter' = IF stop = NReceivers /\ waiter.pc = "waitUpd"
               THEN channelUpdated(waiter, val) ELSE waiter
  /\ delivered' = [r \in 1..NReceivers |->
                     IF from <= r /\ r <= stop
                     THEN Append(delivered[r], val) ELSE delivered[r]]
  /\ running' = (running \ {[val |-> val, next |-> from]}) \cup
                   (IF stop < NReceivers
                    THEN {[val |-> val, next |-> stop + 1]} ELSE {})

\* the greenlet of channel.update starts: plain values are stored, then
\* 'valueChanged' is emitted; the channel object outlives its registry entry
RunUpdate(stop) ==
  /\ Scheduled
  /\ tasks # <<>> /\ Head(tasks).kind = "update"
  /\ tasks' = Tail(tasks)
  /\ registeredChannels' =
       IF VarA \in DOMAIN registeredChannels
       THEN [registeredChannels EXCEPT ![VarA].value = Head(tasks).data]
       ELSE registeredChannels
  /\ EmitValueChanged(Head(tasks).data, 1, stop)
  /\ UNCHANGED <<connVars, serverReg, replyVars, sendVars, handler, parsing,
                 eof, disruptions, nevents, lastEmit, nonWaitVars, netVars, objVars>>

\* a receiver that blocked returns: emit goes on with the receivers after it
ResumeUpdate(g, stop) ==
  /\ Scheduled
  /\ g \in running
  /\ stop >= g.next
  /\ EmitValueChanged(g.val, g.next, stop)
  /\ UNCHANGED <<connVars, chanVars, replyVars, sendVars, loopVars, nevents,
                 lastEmit, nonWaitVars, netVars, objVars>>

(* ------------------------------------------------------------------ *)
(* The writer callback                                                 *)
(* ------------------------------------------------------------------ *)
\* __do_send_data: called when the watched descriptor is writable; the
\* socket accepts any number of bytes (all of them when not `partial`)
DoSendData(partial) ==
  /\ Scheduled
  /\ socket_write_event # NoWatcher
  /\ socket.open /\ socket_write_event = socket.fd
  /\ LET buffer == outgoing_queue
     IN IF buffer = <<>>
        THEN /\ socket_write_event' = NoWatcher
             /\ completed_writing_event' = TRUE
             /\ waiting' = {}
             /\ returned' = returned \cup
                              {[msg |-> m, unsent |-> 0] : m \in waiting}
             /\ UNCHANGED <<outgoing_queue, wire>>
        ELSE \E sent \in (IF partial THEN 1..Len(buffer) ELSE {Len(buffer)}) :
             /\ outgoing_queue' = RemainingAfterSend(buffer, sent)
             /\ wire' = wire \o SubSeq(buffer, 1, sent)
             /\ UNCHANGED <<socket_write_event, completed_writing_event,
                            waiting, returned>>
  /\ UNCHANGED <<connVars, chanVars, replyVars, nsent, enq, loopVars, evVars,
                 lastEmit, userVars, netVars, objVars>>

(* ------------------------------------------------------------------ *)
(* Operations of the user's greenlets                                  *)
(* ------------------------------------------------------------------ *)
\* send_msg_chan_send(name, value, wait) and send_msg_abort(wait):
\* __send_msg_no_reply(message, wait) on a CONNECTED connection
UserSend(wait) ==
  /\ Scheduled
  /\ nsent < MaxUserMsgs
  /\ isSpecConnected(state)
  /\ LET m == Msg("CHAN_SEND", VarA, nsent + 1)
         q1 == outgoing_queue \o sendingString(m)
     IN /\ outgoing_queue' = q1
        /\ enq' = enq \o sendingString(m)
        /\ nsent' = nsent + 1
        /\ IF socket_write_event = NoWatcher
           THEN /\ completed_writing_event' =
                     IF wait THEN FALSE ELSE completed_writing_event
                /\ IF socket.open
                   THEN /\ socket_write_event' = socket.fd
                        /\ waiting' = IF wait THEN waiting \cup {m} ELSE waiting
                   ELSE UNCHANGED <<socket_write_event, waiting>>
                /\ UNCHANGED returned
           ELSE /\ returned' = IF wait
                               THEN returned \cup
                                      {[msg |-> m, unsent |-> Len(q1)]}
                               ELSE returned
                /\ UNCHANGED <<socket_write_event, completed_writing_event,
                               waiting>>
  /\ UNCHANGED <<connVars, chanVars, replyVars, wire, loopVars,
                 evVars, lastEmit, userVars, netVars, objVars>>

\* send_msg_cmd_with_return(cmd): __send_msg_with_reply stores the reply
\* under its id, then sends the message
UserSendWithReply ==
  /\ Scheduled
  /\ nextId <= MaxReplies
  /\ isSpecConnected(state)
  /\ registeredReplies' = registeredReplies \cup {nextId}
  /\ nextId' = nextId + 1
  /\ Commit(send_msg_no_reply(CurCtx, Msg("CMD_WITH_RETURN", <<>>, nextId),
                              socket))
  /\ UNCHANGED <<connVars, replyDone, completed_writing_event, waiting, nsent,
                 wire, returned, loopVars, evVars, lastEmit, userVars,
                 netVars, objVars>>

\* the request operations of a connection (send_msg_cmd, ..., send_msg_close)
RequestOps ==
  {"cmd", "cmd_with_return", "func", "func_with_return", "chan_read",
   "chan_send", "register", "unregister", "abort", "close"}
ReplyOps == {"cmd_with_return", "func_with_return", "chan_read"}
FuncOps == {"func", "func_with_return"}

\* what the caller of a request operation observes: the operation, the state
\* and serverVersion it was called in, how the call ended, and whether the
\* outgoing buffer and the reply table are as they were before the call
NoCall == [op |-> "none", st |-> DISCONNECTED, sv |-> NoAttribute,
           outcome |-> "none", same |-> TRUE]

\* the first test of send_msg_<op>: "send" when the message is built and
\* handed to __send_msg_*, else how the call ends.  send_msg_func and
\* send_msg_func_with_return compare serverVersion (None orders below every
\* number) before they look at the state, and only log below version 3
request_outcome(op, st, sv) ==
  IF op \in FuncOps
  THEN IF sv = NoAttribute THEN "AttributeError"
       ELSE IF sv < 3 THEN "logged"
       ELSE IF isSpecConnected(st) THEN "send" ELSE "NotConnected"
  ELSE IF isSpecConnected(st) THEN "send" ELSE "NotConnected"

\* send_msg_<op>(...) called by a user greenlet in any state
UserRequest(op) ==
  /\ Scheduled
  /\ nsent < MaxUserMsgs
  /\ op \in ReplyOps => nextId <= MaxReplies
  /\ nsent' = nsent + 1
  /\ LET o == request_outcome(op, state, serverVersion)
         withReply == o = "send" /\ op \in ReplyOps
         replies == IF withReply THEN registeredReplies \cup {nextId}
                                 ELSE registeredReplies
         m == Msg(op, VarA, IF withReply THEN nextId ELSE 0)
         X == IF o # "send" THEN CurCtx
              ELSE IF op = "register"
                   THEN send_msg_register(CurCtx, VarA, state, socket)
              ELSE IF op = "unregister"
                   THEN send_msg_unregister(CurCtx, VarA, state, socket)
              ELSE send_msg_no_reply(CurCtx, m, socket)
     IN /\ registeredReplies' = replies
        /\ nextId' = IF withReply THEN nextId + 1 ELSE nextId
        /\ Commit(X)
        /\ lastCall' = [op |-> op, st |-> state, sv |-> serverVersion,
                        outcome |-> IF o # "send" THEN o
                                    ELSE IF X.ok THEN "sent" ELSE "socket.error",
                        same |-> /\ X.q = outgoing_queue
                                 /\ replies = registeredReplies]
  /\ UNCHANGED <<connVars, replyDone, completed_writing_event, waiting,
                 wire, returned, loopVars, evVars, lastEmit, nonCallVars,
                 netVars, objVars>>

\* conn.registerChannel(chanName, slot, registrationFlag)
UserRegister(n, flag) ==
  /\ Scheduled
  /\ nsent < MaxUserMsgs
  /\ nsent' = nsent + 1
  /\ n \notin DOMAIN registeredChannels
  /\ Commit(registerChannel(CurCtx, n, flag, state, socket))
  /\ UNCHANGED <<connVars, replyVars, completed_writing_event, waiting,
                 wire, returned, loopVars, evVars, lastEmit, userVars,
                 netVars, objVars>>

\* conn.unregisterChannel(chanName)
UserUnregister(n) ==
  /\ Scheduled
  /\ nsent < MaxUserMsgs
  /\ nsent' = nsent + 1
  /\ n \in DOMAIN registeredChannels
  /\ isSpecConnected(state)
  /\ Commit(unregisterChannel(CurCtx, n, state, socket))
  /\ UNCHANGED <<connVars, replyVars, completed_writing_event, waiting,
                 wire, returned, loopVars, evVars, lastEmit, userVars,
                 netVars, objVars>>

\* conn.disconnect()
LocalDisconnect ==
  /\ Scheduled
  /\ disruptions < MaxDisruptions
  /\ disruptions' = disruptions + 1
  /\ handle_close
  /\ UNCHANGED <<scanport, port, replyVars, sendVars, handler, parsing, tasks,
                 eof, evVars, userVars, netVars, objVars>>

(* ------------------------------------------------------------------ *)
(* The wait functions of SpecWaitObject, on channel var/A              *)
(* ------------------------------------------------------------------ *)
\* the methods waitConnection, waitReply, waitChannelUpdate; the module
\* functions waitConnection and waitChannelUpdate (suffix F), which run the
\* method in a greenlet made by spawn_greenlet; SpecCounterA.waitCount
WaitOps ==
  {"waitConnection", "waitConnectionF", "waitReply", "waitChannelUpdate",
   "waitChannelUpdateF", "waitCount"}
ChannelWaitOps == {"waitChannelUpdate", "waitChannelUpdateF", "waitCount"}
ValueWaitOps == {"waitChannelUpdate", "waitCount"}

\* whether a timer runs for the wait when the caller passed a timeout or
\* not: spawn_greenlet drops keyword arguments, waitCount does not pass its
\* timeout on
TimerArmed(op, finite) ==
  IF op \in {"waitConnectionF", "waitChannelUpdateF", "waitCount"}
  THEN FALSE ELSE finite

\* the waitValue the method runs with: spawn_greenlet drops it as well
WaitValueUsed(op, wv) == IF op \in ValueWaitOps THEN wv ELSE NoValue

\* a user greenlet makes a SpecWaitObject and calls a wait function with or
\* without a timeout; every one of them starts in connected_event.wait()
WaitStart(op, finite, wv) ==
  /\ Scheduled
  /\ waiter.pc = "idle"
  /\ op = "waitCount" => wv # NoValue
  /\ op \notin ValueWaitOps => wv = NoValue
  /\ waiter' = [NoWait EXCEPT !.pc = "waitConn", !.op = op,
                              !.finite = finite,
                              !.armed = TimerArmed(op, finite),
                              !.waitValue = WaitValueUsed(op, wv)]
  /\ UNCHANGED <<connVars, chanVars, replyVars, sendVars, loopVars, evVars,
                 lastEmit, nonWaitVars, netVars, objVars>>

\* waitReply lines 86-99 after waitConnection(): send_msg_chan_read with the
\* wait object as the reply's receiver, then spec_reply_arrived_event.wait
WaitReplySend ==
  IF isSpecConnected(state)
  THEN LET X == send_msg_no_reply(CurCtx, Msg("chan_read", VarA, nextId),
                                  socket)
       IN /\ registeredReplies' = registeredReplies \cup {nextId}
          /\ nextId' = nextId + 1
          /\ Commit(X)
          /\ waiter' = IF X.ok
                       THEN [waiter EXCEPT !.pc = "waitReply",
                                           !.replyEv = FALSE,
                                           !.replyId = nextId]
                       ELSE [waiter EXCEPT !.pc = "done",
                                           !.result = "socket.error"]
  ELSE /\ waiter' = [waiter EXCEPT !.pc = "done", !.result = "NotConnected"]
       /\ UNCHANGED <<registeredReplies, nextId, outgoing_queue,
                      socket_write_event, enq, chanVars>>

\* waitChannelUpdate lines 113-133 after waitConnection(): a channel that is
\* not registered is registered with channelUpdated as its receiver, then
\* channel_updated_event.wait
WaitChannelSubscribe ==
  LET unreg == \/ VarA \notin DOMAIN registeredChannels
               \/ ~registeredChannels[VarA].registered
      X == IF unreg
           THEN registerChannel(CurCtx, VarA, DOREG, state, socket)
           ELSE CurCtx
  IN /\ Commit(X)
     /\ waiter' = [waiter EXCEPT !.pc = "waitUpd", !.updEv = FALSE,
                                 !.cwu = IF unreg THEN 1 ELSE 0,
                                 !.selfReg = unreg]
     /\ UNCHANGED <<registeredReplies, nextId>>

\* connected_event.wait() returns: the wait function runs on to its next wait
WaitConnected ==
  /\ Scheduled
  /\ waiter.pc = "waitConn" /\ connected_event
  /\ (waiter.op = "waitReply" /\ isSpecConnected(state)) =>
       nextId <= MaxReplies
  /\ CASE waiter.op = "waitReply" -> WaitReplySend
       [] waiter.op \in ChannelWaitOps -> WaitChannelSubscribe
       [] OTHER ->
            /\ waiter' = [waiter EXCEPT !.pc = "done", !.result = "returned"]
            /\ UNCHANGED <<registeredReplies, nextId, outgoing_queue,
                           socket_write_event, enq, chanVars>>
  /\ UNCHANGED <<connVars, replyDone, completed_writing_event, waiting,
                 nsent, wire, returned, loopVars, evVars, lastEmit,
                 nonWaitVars, netVars, objVars>>

\* spec_reply_arrived_event.wait() returns: waitReply returns
ReplyWake ==
  /\ Scheduled
  /\ waiter.pc = "waitReply" /\ waiter.replyEv
  /\ waiter' = [waiter EXCEPT !.pc = "done", !.result = "returned"]
  /\ UNCHANGED <<connVars, chanVars, replyVars, sendVars, loopVars, evVars,
                 lastEmit, nonWaitVars, netVars, objVars>>

\* channel_updated_event.wait() returns (lines 126-136): with the awaited
\* value, or with any value when none is awaited, the channel is
\* unregistered if need be and the function returns; else the loop of line
\* 132 calls wait() again on the event that is still set
WaitWake ==
  /\ Scheduled
  /\ waiter.pc = "waitUpd" /\ waiter.updEv
  /\ IF waiter.waitValue = NoValue \/ waiter.value = waiter.waitValue
     THEN LET X == IF waiter.cwu # 0
                   THEN unregisterChannel(CurCtx, VarA, state, socket)
                   ELSE CurCtx
          IN /\ Commit(X)
             /\ waiter' = [waiter EXCEPT
                             !.pc = "done",
                             !.result = IF X.ok THEN "returned"
                                                ELSE "NotConnected"]
     ELSE /\ waiter' = [waiter EXCEPT !.pc = "spin"]
          /\ UNCHANGED <<outgoing_queue, socket_write_event, enq, chanVars>>
  /\ UNCHANGED <<connVars, replyVars, completed_writing_event, waiting,
                 nsent, wire, returned, loopVars, evVars, lastEmit,
                 nonWaitVars, netVars, objVars>>

\* the timer of gevent.Timeout(timeout, SpecClientTimeoutError) expires
\* while the greenlet is blocked: the exception leaves the wait function
TimerExpires ==
  /\ Scheduled
  /\ waiter.armed
  /\ waiter.pc \in {"waitConn", "waitReply", "waitUpd"}
  /\ waiter' = [waiter EXCEPT !.pc = "done", !.result = "Timeout"]
  /\ UNCHANGED <<connVars, chanVars, replyVars, sendVars, loopVars, evVars,
                 lastEmit, nonWaitVars, netVars, objVars>>

(* ------------------------------------------------------------------ *)
(* Commands                                                            *)
(* ------------------------------------------------------------------ *)
\* SpecCommandA.executeCommand(command, wait=False) once waitConnection()
\* has returned: the command is sent with the command object as the reply's
\* receiver and the greenlet of wait_end_of_spec_cmd is returned
CommandStart ==
  /\ Scheduled
  /\ cmdTask.pc = "none"
  /\ connected_event /\ isSpecConnected(state)
  /\ nextId <= MaxReplies
  /\ registeredReplies' = registeredReplies \cup {nextId}
  /\ nextId' = nextId + 1
  /\ Commit(send_msg_no_reply(CurCtx, Msg("cmd_with_return", <<>>, nextId),
                              socket))
  /\ cmdTask' = [pc |-> "running", id |-> nextId]
  /\ UNCHANGED <<connVars, replyDone, completed_writing_event, waiting, nsent,
                 wire, returned, loopVars, evVars, lastEmit, nonCmdVars,
                 netVars, objVars>>

\* the caller gives the running command up: it kills the greenlet it was
\* handed, or drops its last reference to it.  GreenletExit is no Exception
\* and passes wrap_errors; no code of SpecCommand runs on either way
CommandCancel(how) ==
  /\ Scheduled
  /\ cmdTask.pc = "running"
  /\ cmdTask' = [cmdTask EXCEPT !.pc = how]
  /\ UNCHANGED <<connVars, chanVars, replyVars, sendVars, loopVars, evVars,
                 lastEmit, nonCmdVars, netVars, objVars>>

(* ------------------------------------------------------------------ *)
(* SpecEventsDispatcher: the receiver list of one (sender, signal)      *)
(* ------------------------------------------------------------------ *)
Slots == 1..MaxSlots

\* the two modules of the repository that define emit
PackageModule == "SpecClient/SpecEventsDispatcher.py"
TopLevelModule == "SpecEventsDispatcher.py"

RECURSIVE EmitWalk(_, _, _, _, _)
\* 'for receiver in receivers: receiver(arguments)' from the i-th entry on;
\* bad are the receivers that raise, catches tells whether the call stands
\* in a try with a bare except.  The receivers called, in call order, and
\* how emit ends
EmitWalk(list, i, bad, catches, calls) ==
  IF i > Len(list)
  THEN [calls |-> calls, outcome |-> "returned"]
  ELSE IF list[i] \in bad /\ ~catches
       THEN [calls |-> Append(calls, list[i]), outcome |-> "raised"]
       ELSE EmitWalk(list, i + 1, bad, catches, Append(calls, list[i]))

\* emit of SpecClient/SpecEventsDispatcher.py: the exception of a receiver is
\* logged and the loop continues
emit(list, bad) == EmitWalk(list, 1, bad, TRUE, <<>>)

\* emit of the top-level SpecEventsDispatcher.py: the call is not guarded
emit_toplevel(list, bad) == EmitWalk(list, 1, bad, FALSE, <<>>)

NoEmitLog == [module |-> "none", list |-> <<>>, bad |-> {}, calls |-> <<>>,
              outcome |-> "none"]

\* connect(sender, signal, slot): a slot already in the list is not added
DispConnect(r) ==
  /\ \A i \in 1..Len(receivers) : receivers[i] # r
  /\ receivers' = Append(receivers, r)
  /\ UNCHANGED <<connVars, chanVars, replyVars, sendVars, loopVars, evVars,
                 lastEmit, nonDispVars, emitLog, weakVars, netVars, objVars>>

\* disconnect(sender, signal, slot)
DispDisconnect(r) ==
  /\ \E i \in 1..Len(receivers) : receivers[i] = r
  /\ receivers' = SelectSeq(receivers, LAMBDA x : x # r)
  /\ UNCHANGED <<connVars, chanVars, replyVars, sendVars, loopVars, evVars,
                 lastEmit, nonDispVars, emitLog, weakVars, netVars, objVars>>

\* emit(sender, signal, arguments) of module m while the receivers in bad
\* raise
DispEmit(m, bad) ==
  /\ receivers # <<>>
  /\ LET e == IF m = PackageModule THEN emit(receivers, bad)
                                   ELSE emit_toplevel(receivers, bad)
     IN emitLog' = [module |-> m, list |-> receivers, bad |-> bad,
                    calls |-> e.calls, outcome |-> e.outcome]
  /\ UNCHANGED <<connVars, chanVars, replyVars, sendVars, loopVars, evVars,
                 lastEmit, nonDispVars, receivers, weakVars, netVars, objVars>>

(* ------------------------------------------------------------------ *)
(* SpecEventsDispatcher: weak receivers, dispatch modes, two signals   *)
(* ------------------------------------------------------------------ *)
UPDATEVALUE == 1
FIREEVENT == 2
Modes == {UPDATEVALUE, FIREEVENT}

\* two (sender, signal) pairs; a pair whose list is empty has no entry in
\* 'connections' (_cleanupConnections), which emit, connect and disconnect
\* treat as the empty list
Keys == {"sigA", "sigB"}
WeakSlots == 1..MaxWeak

\* Receiver(weakReceiver, dispatchMode)
Receiver(r, m) == [slot |-> r, mode |-> m]

\* the index of the first entry of list whose weakReceiver refers to r,
\* 0 if there is none ('for r in receivers: if r.weakReceiver == ...')
FirstMatch(list, r) ==
  IF \E i \in 1..Len(list) : list[i].slot = r
  THEN CHOOSE i \in 1..Len(list) :
         /\ list[i].slot = r
         /\ \A j \in 1..(i - 1) : list[j].slot # r
  ELSE 0

\* receivers.remove(entry at index i)
RemoveAt(list, i) ==
  [j \in 1..(Len(list) - 1) |-> IF j < i THEN list[j] ELSE list[j + 1]]

\* connect with a second list entry for a slot that is already connected
connect_Append(list, r, m) == Append(list, Receiver(r, m))

\* connect(sender, signal, slot, dispatchMode) on the list of the pair
connect(list, r, m) ==
  LET i == FirstMatch(list, r)
  IN IF i # 0 THEN [list EXCEPT ![i].mode = m]
              ELSE Append(list, Receiver(r, m))

\* disconnect(sender, signal, slot) on the list of the pair
disconnect(list, r) ==
  LET i == FirstMatch(list, r)
  IN IF i # 0 THEN RemoveAt(list, i) ELSE list

\* _removeReceiver(weakReceiver): every list loses its first entry for r
_removeReceiver(conns, r) == [k \in Keys |-> disconnect(conns[k], r)]

slotsOf(list) == [i \in 1..Len(list) |-> list[i].slot]

\* was and old: the index and the mode of the slot's entry before the call
NoOp == [op |-> "none", key |-> "none", slot |-> 0, mode |-> 0, n |-> 0,
         was |-> 0, old |-> 0]

\* the dispatch mode of the entry of list at index i, 0 if there is none
ModeAt(list, i) == IF i \in 1..Len(list) THEN list[i].mode ELSE 0

NoEmitting == [pc |-> "idle", key |-> "none", i |-> 0, calls |-> <<>>,
               start |-> <<>>, reclaimed |-> {}, disconnected |-> {}]

\* the user calls connect(sender, signal, slot, m) outside an emit
WeakConnect(k, r, m) ==
  /\ emitting.pc # "walk"
  /\ lastOp.n < MaxDispOps
  /\ r \in alive
  /\ connections' = [connections EXCEPT ![k] = connect(@, r, m)]
  /\ lastOp' = [op |-> "connect", key |-> k, slot |-> r, mode |-> m,
                n |-> lastOp.n + 1, was |-> FirstMatch(connections[k], r),
                old |-> ModeAt(connections[k],
                               FirstMatch(connections[k], r))]
  /\ UNCHANGED <<connVars, chanVars, replyVars, sendVars, loopVars, evVars,
                 lastEmit, nonDispVars, receivers, emitLog, alive, emitting,
                 netVars, objVars>>

\* the user calls disconnect(sender, signal, slot) outside an emit
WeakDisconnect(k, r) ==
  /\ emitting.pc # "walk"
  /\ lastOp.n < MaxDispOps
  /\ r \in alive
  /\ connections' = [connections EXCEPT ![k] = disconnect(@, r)]
  /\ lastOp' = [op |-> "disconnect", key |-> k, slot |-> r, mode |-> 0,
                n |-> lastOp.n + 1, was |-> FirstMatch(connections[k], r),
                old |-> ModeAt(connections[k],
                               FirstMatch(connections[k], r))]
  /\ UNCHANGED <<connVars, chanVars, replyVars, sendVars, loopVars, evVars,
                 lastEmit, nonDispVars, receivers, emitLog, alive, emitting,
                 netVars, objVars>>

\* the last strong reference to callable r goes away: the weak reference's
\* callback _removeReceiver runs at once.  Inside emit this happens only
\* during the call of a receiver, which itself is held by that call
Reclaim(r) ==
  /\ r \in alive
  /\ emitting.pc = "walk" =>
       /\ emitting.calls # <<>>
       /\ emitting.calls[Len(emitting.calls)] # r
  /\ alive' = alive \ {r}
  /\ connections' = _removeReceiver(connections, r)
  /\ emitting' = IF emitting.pc = "walk"
                 THEN [emitting EXCEPT !.reclaimed = @ \cup {r}]
                 ELSE emitting
  /\ UNCHANGED <<connVars, chanVars, replyVars, sendVars, loopVars, evVars,
                 lastEmit, nonDispVars, receivers, emitLog, lastOp, netVars, objVars>>

\* emit(sender, signal, arguments): the list is looked up and its iterator
\* is created
WeakEmitBegin(k) ==
  /\ emitting.pc # "walk"
  /\ connections[k] # <<>>
  /\ emitting' = [pc |-> "walk", key |-> k, i |-> 1, calls |-> <<>>,
                  start |-> slotsOf(connections[k]), reclaimed |-> {},
                  disconnected |-> {}]
  /\ UNCHANGED <<connVars, chanVars, replyVars, sendVars, loopVars, evVars,
                 lastEmit, nonDispVars, receivers, emitLog, connections,
                 alive, lastOp, netVars, objVars>>

\* one turn of 'for receiver in receivers': the list iterator hands out the
\* entry at its index, if the list still has one, and the receiver is called
WeakEmitStep ==
  /\ emitting.pc = "walk"
  /\ LET list == connections[emitting.key]
     IN emitting' =
          IF emitting.i > Len(list)
          THEN [emitting EXCEPT !.pc = "done"]
          ELSE [emitting EXCEPT !.i = @ + 1,
                                !.calls = Append(@, list[emitting.i].slot)]
  /\ UNCHANGED <<connVars, chanVars, replyVars, sendVars, loopVars, evVars,
                 lastEmit, nonDispVars, receivers, emitLog, connections,
                 alive, lastOp, netVars, objVars>>

\* the receiver being called by the emit under way calls disconnect(sender,
\* signal, slot) for a receiver of the list being walked, itself included
ReceiverDisconnects(r) ==
  /\ emitting.pc = "walk"
  /\ emitting.calls # <<>>
  /\ r \in alive
  /\ lastOp.n < MaxDispOps
  /\ FirstMatch(connections[emitting.key], r) # 0
  /\ connections' = [connections EXCEPT ![emitting.key] = disconnect(@, r)]
  /\ emitting' = [emitting EXCEPT !.disconnected = @ \cup {r}]
  /\ lastOp' = [op |-> "disconnect", key |-> emitting.key, slot |-> r,
                mode |-> 0, n |-> lastOp.n + 1,
                was |-> FirstMatch(connections[emitting.key], r),
                old |-> ModeAt(connections[emitting.key],
                               FirstMatch(connections[emitting.key], r))]
  /\ UNCHANGED <<connVars, chanVars, replyVars, sendVars, loopVars, evVars,
                 lastEmit, nonDispVars, receivers, emitLog, alive, netVars,
                 objVars>>

\* the receiver being called by the emit under way calls connect(sender,
\* signal, slot, m) on the list being walked
ReceiverConnects(r, m) ==
  /\ emitting.pc = "walk"
  /\ emitting.calls # <<>>
  /\ r \in alive
  /\ lastOp.n < MaxDispOps
  /\ connections' = [connections EXCEPT ![emitting.key] = connect(@, r, m)]
  /\ lastOp' = [op |-> "connect", key |-> emitting.key, slot |-> r,
                mode |-> m, n |-> lastOp.n + 1,
                was |-> FirstMatch(connections[emitting.key], r),
                old |-> ModeAt(connections[emitting.key],
                               FirstMatch(connections[emitting.key], r))]
  /\ UNCHANGED <<connVars, chanVars, replyVars, sendVars, loopVars, evVars,
                 lastEmit, nonDispVars, receivers, emitLog, alive, emitting,
                 netVars, objVars>>

(* ------------------------------------------------------------------ *)
(* The peer                                                            *)
(* ------------------------------------------------------------------ *)
\* the peer closes its end of the connection (or dies)
PeerClose ==
  /\ socket.open /\ ~eof
  /\ disruptions < MaxDisruptions
  /\ disruptions' = disruptions + 1
  /\ eof' = TRUE
  /\ UNCHANGED <<connVars, chanVars, replyVars, sendVars, handler, parsing,
                 tasks, evVars, lastEmit, userVars, netVars, objVars>>

(* ------------------------------------------------------------------ *)
(* Channel values.  A Python value is a record: t its type, v the text *)
(* of a scalar, m the items of a dict (<<>> for a scalar).  The numbers  *)
(* used here have distinct numerals, so that Python's == on them is    *)
(* equality of the records.                                            *)
(* ------------------------------------------------------------------ *)
PyNone == "None"

Scalar(t, v) == [t |-> t, v |-> v, m |-> <<>>]

None == Scalar("none", "")

Str(v) == Scalar("str", v)

Dict(m) == [t |-> "dict", v |-> "", m |-> m]

isDict(x) == x.t = "dict"

\* d[k] = x on the items of a dict
Put(m, k, x) == [j \in DOMAIN m \cup {k} |-> IF j = k THEN x ELSE m[j]]

\* del d[k] on the items of a dict that has the key
Del(m, k) ==
  IF DOMAIN m \ {k} = {} THEN <<>> ELSE [j \in DOMAIN m \ {k} |-> m[j]]

\* d.update(e) on the items of two dicts
DictUpdate(m, e) ==
  [j \in DOMAIN m \cup DOMAIN e |-> IF j \in DOMAIN e THEN e[j] ELSE m[j]]

\* the numerals int() and float() accept, and what int() makes of a float
IntNumerals == {"7", "2"}

FloatNumerals == {"2.5"}

Truncated(v) == IF v = "2.5" THEN "2" ELSE v

\* SpecChannel._coerce: int(value), else float(value), else value as it is
_coerce(value) ==
  IF value.t = "int" THEN value
  ELSE IF value.t = "float" THEN Scalar("int", Truncated(value.v))
  ELSE IF value.t = "str" /\ value.v \in IntNumerals
       THEN Scalar("int", value.v)
  ELSE IF value.t = "str" /\ value.v \in FloatNumerals
       THEN Scalar("float", value.v)
  ELSE value

\* Python's `key in x`: a key of a dict, a substring of a string (no key
\* used here occurs in a string used here), a TypeError on anything else
InRaises(x) == x.t \notin {"dict", "str"}

In(key, x) == isDict(x) /\ key \in DOMAIN x.m

\* SpecChannel.__init__ lines 45-58: the access path of a channel name
access1(n) == IF Len(n) >= 3 /\ n[1] = "var" THEN n[3] ELSE PyNone

access2(n) == IF Len(n) >= 4 /\ n[1] = "var" THEN n[4] ELSE PyNone

SpecChannel(n) ==
  [name |-> n, access1 |-> access1(n), access2 |-> access2(n), value |-> None]

NoChan == [name |-> <<>>, access1 |-> PyNone, access2 |-> PyNone,
           value |-> None]

\* what a call of update leaves behind: the cached value, the values
\* emitted with valueChanged, and whether an exception left the call
Outcome(value, emits, exc) == [value |-> value, emits |-> emits, exc |-> exc]

\* update lines 132-153: a mapping arrives at a channel with an access path
updateLeaf(ch, channelValue, deleted, force) ==
  IF ~In(ch.access1, channelValue) THEN Outcome(ch.value, <<>>, FALSE)
  ELSE IF deleted THEN Outcome(ch.value, <<None>>, FALSE)
  ELSE
    LET sub == channelValue.m[ch.access1] IN
    IF ch.access2 = PyNone
    THEN IF force \/ ch.value = None \/ ch.value # sub
         THEN LET new == IF isDict(sub) THEN sub ELSE _coerce(sub) IN
              Outcome(new, <<new>>, FALSE)
         ELSE Outcome(ch.value, <<>>, FALSE)
    ELSE IF InRaises(sub) THEN Outcome(ch.value, <<>>, TRUE)
    ELSE IF ~In(ch.access2, sub) THEN Outcome(ch.value, <<>>, FALSE)
    ELSE
      LET leaf == sub.m[ch.access2] IN
      IF force \/ ch.value = None \/ ch.value # leaf
      THEN LET new == _coerce(leaf) IN Outcome(new, <<new>>, FALSE)
      ELSE Outcome(ch.value, <<>>, FALSE)

\* update lines 158-171: one turn of the loop over a deleted mapping; the
\* result is the items of self.value and whether the turn raised (del on
\* a value that is no dict, len() of a number, None in a string of length 1)
deleteItem(m, key, val) ==
  IF ~isDict(val)
  THEN [m |-> IF key \in DOMAIN m THEN Del(m, key) ELSE m, exc |-> FALSE]
  ELSE IF key \notin DOMAIN m
  THEN [m |-> m, exc |-> TRUE]
  ELSE IF ~isDict(m[key])
  THEN [m |-> m,
        exc |-> DOMAIN val.m # {} \/ m[key].t # "str" \/ Len(m[key].v) = 1]
  ELSE
    LET left == [j \in DOMAIN m[key].m \ DOMAIN val.m |-> m[key].m[j]]
        kept == IF DOMAIN left = {} THEN <<>> ELSE left
    IN  [m |-> Put(m, key, IF DOMAIN kept = {PyNone} THEN kept[PyNone]
                           ELSE Dict(kept)),
         exc |-> FALSE]

\* the same turn, were an incoming scalar always assigned to its key
mergeItem_Assign(m, k1, v1) ==
  IF isDict(v1)
  THEN IF k1 \notin DOMAIN m THEN Put(m, k1, v1)
       ELSE IF ~isDict(m[k1])
       THEN Put(m, k1, Dict(DictUpdate(Put(<<>>, PyNone, m[k1]), v1.m)))
       ELSE Put(m, k1, Dict(DictUpdate(m[k1].m, v1.m)))
  ELSE Put(m, k1, v1)

\* update lines 173-185: one turn of the loop over a published mapping
mergeItem(m, k1, v1) ==
  IF isDict(v1)
  THEN IF k1 \notin DOMAIN m THEN Put(m, k1, v1)
       ELSE IF ~isDict(m[k1])
       THEN Put(m, k1, Dict(DictUpdate(Put(<<>>, PyNone, m[k1]), v1.m)))
       ELSE Put(m, k1, Dict(DictUpdate(m[k1].m, v1.m)))
  ELSE IF k1 \in DOMAIN m /\ isDict(m[k1])
       THEN Put(m, k1, Dict(Put(m[k1].m, PyNone, v1)))
       ELSE Put(m, k1, v1)

\* the loop of lines 158-185 over the items of channelValue, taken in the
\* order the dict iterates them; an exception ends it where it stands
RECURSIVE mergeItems(_, _, _, _, _)
mergeItems(m, items, order, i, deleted) ==
  IF i > Len(order) THEN [m |-> m, exc |-> FALSE]
  ELSE IF deleted
  THEN LET r == deleteItem(m, order[i], items[order[i]]) IN
       IF r.exc THEN r ELSE mergeItems(r.m, items, order, i + 1, deleted)
  ELSE mergeItems(mergeItem(m, order[i], items[order[i]]), items, order,
                  i + 1, deleted)

\* update lines 155-195: everything else
updateWhole(ch, channelValue, deleted, force, order) ==
  IF isDict(ch.value) /\ isDict(channelValue)
  THEN LET r == mergeItems(ch.value.m, channelValue.m, order, 1, deleted) IN
       IF r.exc THEN Outcome(Dict(r.m), <<>>, TRUE)
       ELSE Outcome(Dict(r.m), <<Dict(r.m)>>, FALSE)
  ELSE LET new == IF deleted THEN None ELSE channelValue IN
       Outcome(new, <<new>>, FALSE)

\* SpecChannel.update(channelValue, deleted, force)
update(ch, channelValue, deleted, force, order) ==
  IF isDict(channelValue) /\ ch.access1 # PyNone
  THEN updateLeaf(ch, channelValue, deleted, force)
  ELSE updateWhole(ch, channelValue, deleted, force, order)

\* SpecVariableA._update: the 'update' callback is called with the value
_update(calls, value) == Append(calls, value)

\* SpecEventsDispatcher.emit of valueChanged to the receiver a variable
\* registered (SpecVariableA._connected), once for each emission
RECURSIVE deliver(_, _, _)
deliver(calls, emits, i) ==
  IF i > Len(emits) THEN calls
  ELSE deliver(_update(calls, emits[i]), emits, i + 1)

\* the channel names, scalars and mappings the peer publishes
ChanNames == {<<"var", "T">>, <<"var", "T", "x">>, <<"var", "T", "x", "y">>}

Leaves == {Str("7"), Str("2.5"), Str("nope")}

Item(k, x) == Dict(Put(<<>>, k, x))

Payloads ==
  Leaves \cup {Scalar("int", "7")}
  \cup {Item("", x) : x \in {Str("7"), Scalar("int", "7")}}
  \cup {Item("x", x) : x \in Leaves}
  \cup {Item("x", Item("y", x)) : x \in Leaves}
  \cup {Item("x", Item("z", Str("nope"))), Item("w", Str("7")),
        Dict(Put(Put(<<>>, "x", Item("y", Str("7"))), "w", Str("7")))}

\* the orders in which a dict may iterate its keys
Orders(x) ==
  IF isDict(x)
  THEN {s \in [1..Cardinality(DOMAIN x.m) -> DOMAIN x.m] :
          \A i, j \in DOMAIN s : i # j => s[i] # s[j]}
  ELSE {<<>>}

NoUpdate == [n |-> 0, payload |-> None, deleted |-> FALSE, force |-> FALSE,
             before |-> None, out |-> Outcome(None, <<>>, FALSE),
             calls |-> <<>>]

\* SpecChannel(connection, name): the channel object is constructed
ChanCreate(n) ==
  /\ channel = NoChan
  /\ channel' = SpecChannel(n)
  /\ UNCHANGED <<connVars, chanVars, replyVars, sendVars, loopVars, evVars,
                 lastEmit, userVars, netVars, updLog, cmdObj,
                 counter>>

\* channel.update(payload, deleted, force) runs, and valueChanged reaches
\* the _update of the variable that registered the channel
ChanUpdate(payload, deleted, force, order) ==
  /\ channel # NoChan
  /\ updLog.n < MaxUpdates
  /\ LET out == update(channel, payload, deleted, force, order) IN
       /\ channel' = [channel EXCEPT !.value = out.value]
       /\ updLog' = [n |-> updLog.n + 1, payload |-> payload,
                     deleted |-> deleted, force |-> force,
                     before |-> channel.value, out |-> out,
                     calls |-> deliver(<<>>, out.emits, 1)]
  /\ UNCHANGED <<connVars, chanVars, replyVars, sendVars, loopVars, evVars,
                 lastEmit, userVars, netVars, cmdObj, counter>>

(* ------------------------------------------------------------------ *)
(* SpecCommandA: invocations of one command object in flight together. *)
(* The object has one _reply_arrived_event and one _last_reply; every    *)
(* invocation has its own reply id and its own greenlet t, blocked in  *)
(* wait_end_of_spec_cmd.  The id of the i-th invocation's reply is i.  *)
(* ------------------------------------------------------------------ *)
NoCmdObj == [event |-> FALSE, last |-> 0, inv |-> <<>>, replied |-> {}]

\* the greenlet of an invocation: pc is "waiting" or "done", woken tells
\* that set() has scheduled its wake-up, got is the reply it returned
NewInvocation == [pc |-> "waiting", woken |-> FALSE, got |-> 0]

\* executeCommand(command, wait=False): the event is cleared, the command
\* is sent and t is spawned.  Whether a wake-up that set() has scheduled
\* survives clear() depends on the gevent release: either may happen
executeCommand(keep) ==
  /\ Len(cmdObj.inv) < MaxInvocations
  /\ cmdObj' =
       [cmdObj EXCEPT
          !.event = FALSE,
          !.inv = Append([i \in DOMAIN cmdObj.inv |->
                            [cmdObj.inv[i] EXCEPT !.woken = @ /\ keep]],
                         NewInvocation)]
  /\ UNCHANGED <<connVars, chanVars, replyVars, sendVars, loopVars, evVars,
                 lastEmit, userVars, netVars, channel, updLog, counter>>

\* SpecCommandA.replyArrived(reply) for the reply of invocation id
cmdReplyArrived(id) ==
  /\ id \in DOMAIN cmdObj.inv
  /\ id \notin cmdObj.replied
  /\ cmdObj' =
       [cmdObj EXCEPT
          !.last = id,
          !.event = TRUE,
          !.replied = @ \cup {id},
          !.inv = [i \in DOMAIN cmdObj.inv |->
                     [cmdObj.inv[i] EXCEPT !.woken = TRUE]]]
  /\ UNCHANGED <<connVars, chanVars, replyVars, sendVars, loopVars, evVars,
                 lastEmit, userVars, netVars, channel, updLog, counter>>

\* wait_end_of_spec_cmd(cmd_obj) of invocation i returns from wait() and
\* reads cmd_obj._last_reply
wait_end_of_spec_cmd(i) ==
  /\ i \in DOMAIN cmdObj.inv
  /\ cmdObj.inv[i].pc = "waiting"
  /\ cmdObj.inv[i].woken \/ cmdObj.event
  /\ cmdObj' = [cmdObj EXCEPT !.inv[i].pc = "done",
                              !.inv[i].got = cmdObj.last]
  /\ UNCHANGED <<connVars, chanVars, replyVars, sendVars, loopVars, evVars,
                 lastEmit, userVars, netVars, channel, updLog, counter>>

(* ------------------------------------------------------------------ *)
(* SpecCounterA and SpecCounter: the counter state.  counterState is   *)
(* the attribute __init__ sets and getState returns; priv is the       *)
(* attribute __counterState (_SpecCounterA__counterState) that          *)
(* _updateCounterState sets; cb is the state last passed to the        *)
(* counterStateChanged callback; updates are the values delivered.     *)
(* ------------------------------------------------------------------ *)
NOTINITIALIZED == 0
NOTCOUNTING == 1
COUNTING == 2

\* the values scaler/.all./count is published with
CountValues == {0, 1, 2}

NoCounter == [counterState |-> NOTINITIALIZED, priv |-> NOTINITIALIZED,
              cb |-> NOTINITIALIZED, updates |-> <<>>, ret |-> NOTINITIALIZED,
              asked |-> FALSE]

\* SpecCounterA._updateCounterState(state)
_updateCounterState(c, v) ==
  LET st == IF v = 0 THEN NOTCOUNTING ELSE COUNTING IN
  [c EXCEPT !.priv = st, !.cb = st, !.updates = Append(@, v)]

\* SpecCounterA.getState()
getState(c) == c.counterState

\* an update of scaler/.all./count with value v reaches
\* SpecCounterA.__counterStateChanged
CounterStateChanged(v) ==
  /\ Len(counter.updates) < MaxCounterUpdates
  /\ counter' = _updateCounterState(counter, v)
  /\ UNCHANGED <<connVars, chanVars, replyVars, sendVars, loopVars, evVars,
                 lastEmit, userVars, netVars, channel, updLog, cmdObj>>

\* SpecCounter.getState(): the channel is read (value v), the counter state
\* is updated with it and SpecCounterA.getState() is returned
CounterGetState(v) ==
  /\ Len(counter.updates) < MaxCounterUpdates
  /\ LET c == _updateCounterState(counter, v) IN
       counter' = [c EXCEPT !.ret = getState(c), !.asked = TRUE]
  /\ UNCHANGED <<connVars, chanVars, replyVars, sendVars, loopVars, evVars,
                 lastEmit, userVars, netVars, channel, updLog, cmdObj>>

(* ------------------------------------------------------------------ *)
(* Specification of the connection life cycle                          *)
(* ------------------------------------------------------------------ *)
\* SpecConnection.__init__ but for what it derives from 'host:port'
InitBase ==
  /\ state = DISCONNECTED
  /\ connected = FALSE
  /\ serverVersion = NoAttribute
  /\ socket = NoSocket
  /\ registeredChannels = InitCtx.reg
  /\ registeredReplies = {}
  /\ connected_event = FALSE
  /\ completed_writing_event = FALSE
  /\ outgoing_queue = <<>>
  /\ socket_write_event = NoWatcher
  /\ waiting = {}
  /\ handler = FALSE
  /\ parsing = FALSE
  /\ tasks = <<>>
  /\ running = {}
  /\ nextId = 1
  /\ replyDone = [i \in 1..MaxReplies |-> 0]
  /\ eof = FALSE
  /\ disruptions = 0
  /\ nsent = 0
  /\ nevents = 0
  /\ enq = <<>>
  /\ wire = <<>>
  /\ serverReg = {}
  /\ returned = {}
  /\ lastEmit = NoEmit
  /\ delivered = [r \in 1..NReceivers |-> <<>>]
  /\ lastCall = NoCall
  /\ waiter = NoWait
  /\ cmdTask = NoCommand
  /\ receivers = <<>>
  /\ emitLog = NoEmitLog
  /\ connections = [k \in Keys |-> <<>>]
  /\ alive = WeakSlots
  /\ emitting = NoEmitting
  /\ lastOp = NoOp
  /\ dialled = 0
  /\ ndials = 0
  /\ raised = FALSE
  /\ channel = NoChan
  /\ updLog = NoUpdate
  /\ cmdObj = NoCmdObj
  /\ counter = NoCounter

\* SpecConnection('host:6789'): a numeric port, no scan
Init ==
  /\ InitBase
  /\ scanport = FALSE
  /\ port = DefaultPort
  /\ peers = NoPeers

\* the connection life cycle with requests and their replies
Next ==
  \/ \E fd \in Fds : DialOk(fd)
  \/ Recv
  \/ \E f \in PeerFrames : Dispatch(f)
  \/ EndChunk
  \/ RecvClosed
  \/ RunSpecConnected
  \/ RunReplyUpdate
  \/ DoSendData(FALSE)
  \/ UserSendWithReply
  \/ LocalDisconnect
  \/ PeerClose

Spec == Init /\ [][Next]_vars

\* the same with a dispatch that raises
NextRaise ==
  \/ Next
  \/ \E f \in PeerFrames : DispatchRaises(f)

SpecRaise == Init /\ [][NextRaise]_vars

\* the HELLO_REPLY of a version 3 server that carries the expected name
HelloFrame == Frame("HELLO_REPLY", ScanName, 0, 3, <<>>, 0)

(* ------------------------------------------------------------------ *)
(* Specification of channel registration                               *)
(* ------------------------------------------------------------------ *)
NextChan ==
  \/ \E fd \in Fds : DialOk(fd)
  \/ Recv
  \/ Dispatch(HelloFrame)
  \/ EndChunk
  \/ RecvClosed
  \/ RunSpecConnected
  \/ DoSendData(FALSE)
  \/ \E n \in UserNames, flag \in {DOREG, DONTREG, WAITREG} :
       UserRegister(n, flag)
  \/ \E n \in UserNames : UserUnregister(n)
  \/ PeerClose

SpecChan == Init /\ [][NextChan]_vars

(* ------------------------------------------------------------------ *)
(* Specification of the outgoing buffer and its writer                 *)
(* ------------------------------------------------------------------ *)
NextSend ==
  \/ \E fd \in Fds : DialOk(fd)
  \/ Recv
  \/ Dispatch(HelloFrame)
  \/ EndChunk
  \/ RecvClosed
  \/ RunSpecConnected
  \/ DoSendData(TRUE)
  \/ \E wait \in BOOLEAN : UserSend(wait)
  \/ PeerClose

SpecSend == Init /\ [][NextSend]_vars

\* the same with senders that do not wait: the bytes and their order
NextWrite ==
  \/ \E fd \in Fds : DialOk(fd)
  \/ Recv
  \/ Dispatch(HelloFrame)
  \/ EndChunk
  \/ RecvClosed
  \/ RunSpecConnected
  \/ DoSendData(TRUE)
  \/ UserSend(FALSE)
  \/ PeerClose

SpecWrite == Init /\ [][NextWrite]_vars

(* ------------------------------------------------------------------ *)
(* Specification of channel updates                                    *)
(* ------------------------------------------------------------------ *)
NextEv ==
  \/ \E fd \in Fds : DialOk(fd)
  \/ Recv
  \/ Dispatch(HelloFrame)
  \/ \E f \in NextEventFrames : Dispatch(f)
  \/ EndChunk
  \/ RecvClosed
  \/ RunSpecConnected
  \/ \E stop \in 1..NReceivers : RunUpdate(stop)
  \/ \E g \in running, stop \in 1..NReceivers : ResumeUpdate(g, stop)
  \/ DoSendData(FALSE)
  \/ UserRegister(VarA, DOREG)
  \/ PeerClose

SpecEv == Init /\ [][NextEv]_vars

(* ------------------------------------------------------------------ *)
(* Specification of reconnection, with the fairness of the scheduler:  *)
(* the dial loop, the handler, spawned greenlets and the writer        *)
(* callback run whenever they can; the peer accepts connections and    *)
(* answers a HELLO it has received                                     *)
(* ------------------------------------------------------------------ *)
\* the peer has read a whole HELLO from the current socket
HelloOnWire ==
  \E i \in 1..Len(wire) : wire[i].msg.cmd = "HELLO" /\ wire[i].part = MsgLen

\* bytes arrive only in answer to a HELLO
RecvSolicited ==
  /\ HelloOnWire /\ state = WAITINGFORHELLO
  /\ Recv

\* the peer's HELLO_REPLY to the HELLO it received is dispatched
DispatchSolicited ==
  /\ HelloOnWire /\ state = WAITINGFORHELLO
  /\ Dispatch(HelloFrame)

NextLive ==
  \/ \E fd \in Fds : DialOk(fd)
  \/ RecvSolicited
  \/ DispatchSolicited
  \/ EndChunk
  \/ RecvClosed
  \/ RunSpecConnected
  \/ DoSendData(FALSE)
  \/ \E wait \in BOOLEAN : UserSend(wait)
  \/ PeerClose

SpecLive ==
  /\ Init /\ [][NextLive]_vars
  /\ WF_vars(\E fd \in Fds : DialOk(fd))
  /\ WF_vars(RecvClosed)
  /\ WF_vars(RunSpecConnected)
  /\ WF_vars(DoSendData(FALSE))
  /\ SF_vars(DispatchSolicited)
  /\ WF_vars(RecvSolicited)
  /\ WF_vars(EndChunk)

(* ------------------------------------------------------------------ *)
(* Specification of the port scan: SpecConnection('host:main')         *)
(* ------------------------------------------------------------------ *)
OtherName == "aux"

\* the server of the wanted name listens on port pm and a server of another
\* name on port pa (0: no such server)
PeerConfig(pm, pa) ==
  [p \in ScanPorts |-> IF p = pm THEN ScanName
                       ELSE IF p = pa THEN OtherName ELSE NoServer]

PeerConfigs ==
  {PeerConfig(pm, pa) : pm \in {0, MIN_PORT, MIN_PORT + 3, MAX_PORT},
                        pa \in {0, MIN_PORT, MAX_PORT}}

\* a port that is not numeric: the name is kept and port is None (0 here)
InitScan ==
  /\ InitBase
  /\ scanport = TRUE
  /\ port = 0
  /\ peers \in PeerConfigs

\* the number of ports of one sweep
SweepLen == MAX_PORT - MIN_PORT + 1

\* the HELLO_REPLY of the server that accepted the last connection
ScanHelloFrame == Frame("HELLO_REPLY", peers[dialled], 0, 3, <<>>, 0)

\* the server's HELLO_REPLY to the HELLO it received is dispatched
ScanDispatch ==
  /\ HelloOnWire /\ state = WAITINGFORHELLO
  /\ dialled \in ScanPorts
  /\ Dispatch(ScanHelloFrame)

NextScan ==
  \/ \E fd \in Fds : DialOk(fd)
  \/ DialFail
  \/ RecvSolicited
  \/ ScanDispatch
  \/ EndChunk
  \/ RecvClosed
  \/ RunSpecConnected
  \/ DoSendData(FALSE)

SpecScan == InitScan /\ [][NextScan]_vars

\* the same with the fairness of the scheduler: the dial loop, the handler,
\* the spawned greenlets and the writer callback run whenever they can, and
\* a server answers the HELLO it has received
SpecScanLive ==
  /\ SpecScan
  /\ WF_vars(\E fd \in Fds : DialOk(fd))
  /\ WF_vars(DialFail)
  /\ WF_vars(RecvSolicited)
  /\ SF_vars(ScanDispatch)
  /\ WF_vars(EndChunk)
  /\ WF_vars(RecvClosed)
  /\ WF_vars(RunSpecConnected)
  /\ WF_vars(DoSendData(FALSE))

(* ------------------------------------------------------------------ *)
(* Specification of the request operations, called in any state        *)
(* ------------------------------------------------------------------ *)
NextCall ==
  \/ \E fd \in Fds : DialOk(fd)
  \/ Recv
  \/ \E f \in HelloReplyFrames : Dispatch(f)
  \/ EndChunk
  \/ RecvClosed
  \/ RunSpecConnected
  \/ DoSendData(FALSE)
  \/ \E op \in RequestOps : UserRequest(op)
  \/ LocalDisconnect

SpecCall == Init /\ [][NextCall]_vars

(* ------------------------------------------------------------------ *)
(* Specification of waitReply                                          *)
(* ------------------------------------------------------------------ *)
NextWaitReply ==
  \/ \E fd \in Fds : DialOk(fd)
  \/ Recv
  \/ Dispatch(HelloFrame)
  \/ \E f \in WaitReplyFrames : Dispatch(f)
  \/ EndChunk
  \/ RecvClosed
  \/ RunSpecConnected
  \/ RunReplyUpdate
  \/ DoSendData(FALSE)
  \/ \E finite \in BOOLEAN : WaitStart("waitReply", finite, NoValue)
  \/ WaitConnected
  \/ ReplyWake
  \/ TimerExpires
  \/ PeerClose

SpecWaitReply == Init /\ [][NextWaitReply]_vars

(* ------------------------------------------------------------------ *)
(* Specification of waitChannelUpdate                                  *)
(* ------------------------------------------------------------------ *)
\* the values a caller waits for: none, or the second value of var/A
WaitValues == {NoValue, MaxEvents}

NextWaitUpd ==
  \/ \E fd \in Fds : DialOk(fd)
  \/ Recv
  \/ Dispatch(HelloFrame)
  \/ \E f \in NextEventFrames : Dispatch(f)
  \/ EndChunk
  \/ RecvClosed
  \/ RunSpecConnected
  \/ RunUpdate(NReceivers)
  \/ DoSendData(FALSE)
  \/ UserRegister(VarA, DOREG)
  \/ \E finite \in BOOLEAN, wv \in WaitValues :
       WaitStart("waitChannelUpdate", finite, wv)
  \/ WaitConnected
  \/ WaitWake
  \/ TimerExpires
  \/ PeerClose

SpecWaitUpd == Init /\ [][NextWaitUpd]_vars

\* the same on one connection that stays up
NextWaitFirst ==
  \/ \E fd \in Fds : DialOk(fd)
  \/ Recv
  \/ Dispatch(HelloFrame)
  \/ \E f \in NextEventFrames : Dispatch(f)
  \/ EndChunk
  \/ RunSpecConnected
  \/ RunUpdate(NReceivers)
  \/ DoSendData(FALSE)
  \/ UserRegister(VarA, DOREG)
  \/ \E finite \in BOOLEAN, wv \in WaitValues :
       WaitStart("waitChannelUpdate", finite, wv)
  \/ WaitConnected
  \/ WaitWake
  \/ TimerExpires

SpecWaitFirst == Init /\ [][NextWaitFirst]_vars

(* ------------------------------------------------------------------ *)
(* Specification of the waits with the fairness of the scheduler: the  *)
(* handler, spawned greenlets, the writer callback, woken waiters and  *)
(* expired timers run whenever they can; nothing is assumed of the     *)
(* peer, which may never accept a connection or send an update         *)
(* ------------------------------------------------------------------ *)
NextWaitLive ==
  \/ \E fd \in Fds : DialOk(fd)
  \/ RecvSolicited
  \/ DispatchSolicited
  \/ \E f \in NextEventFrames : Dispatch(f)
  \/ EndChunk
  \/ RecvClosed
  \/ RunSpecConnected
  \/ RunUpdate(NReceivers)
  \/ DoSendData(FALSE)
  \/ \E op \in WaitOps \ {"waitReply"}, finite \in BOOLEAN,
        wv \in WaitValues : WaitStart(op, finite, wv)
  \/ WaitConnected
  \/ WaitWake
  \/ TimerExpires
  \/ PeerClose

SpecWaitLive ==
  /\ Init /\ [][NextWaitLive]_vars
  /\ WF_vars(RecvClosed)
  /\ WF_vars(RunSpecConnected)
  /\ WF_vars(RunUpdate(NReceivers))
  /\ WF_vars(DoSendData(FALSE))
  /\ WF_vars(EndChunk)
  /\ WF_vars(WaitConnected)
  /\ WF_vars(WaitWake)
  /\ WF_vars(TimerExpires)

(* ------------------------------------------------------------------ *)
(* Specification of non-blocking commands                              *)
(* ------------------------------------------------------------------ *)
NextCmd ==
  \/ \E fd \in Fds : DialOk(fd)
  \/ Recv
  \/ Dispatch(HelloFrame)
  \/ \E f \in WaitReplyFrames : Dispatch(f)
  \/ EndChunk
  \/ RecvClosed
  \/ RunSpecConnected
  \/ RunReplyUpdate
  \/ DoSendData(FALSE)
  \/ CommandStart
  \/ \E how \in {"killed", "dropped"} : CommandCancel(how)
  \/ PeerClose

SpecCmd == Init /\ [][NextCmd]_vars

(* ------------------------------------------------------------------ *)
(* Specification of the dispatcher                                     *)
(* ------------------------------------------------------------------ *)
NextDisp ==
  \/ \E r \in Slots : DispConnect(r)
  \/ \E r \in Slots : DispDisconnect(r)
  \/ \E m \in {PackageModule, TopLevelModule}, bad \in SUBSET Slots :
       DispEmit(m, bad)

SpecDisp == Init /\ [][NextDisp]_vars

\* connect, disconnect and reclamation of receivers, without emits
NextConn ==
  \/ \E k \in Keys, r \in WeakSlots, m \in Modes : WeakConnect(k, r, m)
  \/ \E k \in Keys, r \in WeakSlots : WeakDisconnect(k, r)
  \/ \E r \in WeakSlots : Reclaim(r)

SpecConn == Init /\ [][NextConn]_vars

\* the same with emits, whose receivers may drop the last reference to
\* another receiver
NextWeak ==
  \/ \E k \in Keys, r \in WeakSlots, m \in Modes : WeakConnect(k, r, m)
  \/ \E k \in Keys, r \in WeakSlots : WeakDisconnect(k, r)
  \/ \E r \in WeakSlots : Reclaim(r)
  \/ \E k \in Keys : WeakEmitBegin(k)
  \/ WeakEmitStep

SpecWeak == Init /\ [][NextWeak]_vars

(* ------------------------------------------------------------------ *)
(* Properties                                                          *)
(* ------------------------------------------------------------------ *)
\* C1: a step that closes the connection's socket (handle_close, reached by
\* disconnect() or by reading EOF) leaves the channel registry empty and
\* every reply that was pending at that moment completed exactly once and
\* out of the reply table
C1_DisconnectCompletesReplies ==
  [][(socket.open /\ ~socket'.open) =>
       /\ registeredChannels' = <<>>
       /\ \A id \in registeredReplies :
            replyDone'[id] = 1 /\ id \notin registeredReplies']_vars

\* C2: a REPLY frame whose sn > 0 is a key of the reply table spawns the
\* completion of exactly the reply stored under that sn; the entry is out of
\* the table before the reply is completed; no reply is completed twice
C2_ReplyDeliveredOnce ==
  [][/\ \A id \in registeredReplies \ registeredReplies' :
          tasks' = <<Task("reply", id, 0, 0)>>
     /\ \A id \in 1..MaxReplies :
          /\ replyDone'[id] <= 1
          /\ replyDone'[id] # replyDone[id] =>
               /\ Head(tasks) = Task("reply", id, 0, 0)
               /\ id \notin registeredReplies
               /\ id < nextId]_vars

\* C2 witness: one reply has been completed while another is still pending
C2_Witness ==
  \E id \in 1..MaxReplies : replyDone[id] = 1 /\ registeredReplies # {}

\* C3: in every state, a channel of the registry has registered = TRUE if
\* and only if a REGISTER for its server-visible name was sent in the current
\* session and no UNREGISTER for that name was sent since
C3_RegisteredIffServerTold ==
  \A n \in DOMAIN registeredChannels :
    registeredChannels[n].registered <=> spec_chan_name(n) \in serverReg

\* C4: a DOREG channel created while CONNECTED has its REGISTER sent by the
\* creating call; a DOREG channel created earlier, while not CONNECTED, has
\* its REGISTER sent by the step that emits the next 'connected'
C4_DoregRegisters ==
  [][/\ isSpecConnected(state) =>
          \A n \in DOMAIN registeredChannels' \ DOMAIN registeredChannels :
            registeredChannels'[n].registrationFlag = DOREG =>
              spec_chan_name(n) \in serverReg'
     /\ (/\ tasks # <<>> /\ Head(tasks).kind = "specConnected"
         /\ tasks' = Tail(tasks) /\ ~isSpecConnected(state)) =>
          \A n \in DOMAIN registeredChannels :
            registeredChannels[n].registrationFlag = DOREG =>
              spec_chan_name(n) \in serverReg']_vars

\* C5: a send with wait=True returns to its caller only when no byte of the
\* outgoing buffer, the bytes of its own message included, is still unsent
C5_WaitReturnsDrained ==
  \A r \in returned : r.unsent = 0

\* C6: each receiver of var/A's valueChanged is called with the updates in
\* the order their EVENT frames arrived (the peer numbers them 1, 2, ...)
C6_UpdatesInArrivalOrder ==
  \A r \in 1..NReceivers :
    \A i, j \in 1..Len(delivered[r]) :
      i < j => delivered[r][i] < delivered[r][j]

\* C7: the bytes written to the socket, followed by the bytes still in the
\* outgoing buffer, are the bytes enqueued for that socket in enqueue order:
\* no byte is written twice, skipped or reordered
C7_WrittenInEnqueueOrder ==
  wire \o outgoing_queue = enq

\* C7 witness: a partial write stopped inside a message while a message
\* enqueued after it waits in the buffer
C7_Witness ==
  /\ wire # <<>> /\ wire[Len(wire)].part < MsgLen
  /\ Len(outgoing_queue) > MsgLen
  /\ outgoing_queue[Len(outgoing_queue)].msg.cmd = "CHAN_SEND"

\* C8: every change of conn.state is a transition of the connection state
\* machine; CONNECTED is not entered from DISCONNECTED and WAITINGFORHELLO
\* is not entered from CONNECTED
C8_LegalTransitions ==
  [][state' # state =>
       <<state, state'>> \in
         {<<DISCONNECTED, PORTSCANNING>>, <<DISCONNECTED, WAITINGFORHELLO>>,
          <<PORTSCANNING, WAITINGFORHELLO>>, <<WAITINGFORHELLO, CONNECTED>>,
          <<WAITINGFORHELLO, DISCONNECTED>>, <<CONNECTED, DISCONNECTED>>}]_vars

\* C9: when 'connected' is emitted for a HELLO_REPLY that was accepted in
\* state WAITINGFORHELLO, the state is CONNECTED, the latch is set and
\* serverVersion is the version that HELLO_REPLY carried
C9_ConnectedEmit ==
  (lastEmit.sig = "connected" /\ lastEmit.hs = WAITINGFORHELLO) =>
    /\ lastEmit.st = CONNECTED
    /\ lastEmit.latch
    /\ lastEmit.sv = lastEmit.hv

\* C10: once a CONNECTED connection has lost its socket ('disconnected' was
\* emitted), the connection becomes CONNECTED again and 'connected' is
\* emitted again
C10_Reconnects ==
  (lastEmit.sig = "disconnected") ~> (lastEmit.sig = "connected")

\* C11: a request operation called while the state is not CONNECTED ends with
\* NotConnected and leaves the outgoing buffer and the reply table as they were
C11_NotConnectedRaises ==
  (lastCall.op # "none" /\ ~isSpecConnected(lastCall.st)) =>
    lastCall.outcome = "NotConnected" /\ lastCall.same

\* C12: send_msg_func and send_msg_func_with_return called on a CONNECTED
\* connection whose server version is below 3 end with an error raised to the
\* caller, enqueue no byte and store no reply
C12_FuncBelowV3Raises ==
  (/\ lastCall.op \in FuncOps /\ isSpecConnected(lastCall.st)
   /\ lastCall.sv # NoAttribute /\ lastCall.sv < 3) =>
    lastCall.outcome = "ProtocolError" /\ lastCall.same

\* C13: when the reply that ends a waitReply is of type ERROR, the call ends
\* with the server's error raised to its caller, not with a normal return
C13_ErrorReplyRaises ==
  (waiter.op = "waitReply" /\ waiter.pc = "done" /\ waiter.gotError) =>
    waiter.result = "ProtocolError"

\* C14: a wait function called with a finite timeout ends: it returns or
\* raises, at the latest when the timeout has expired
C14_TimedWaitEnds ==
  (waiter.pc # "idle" /\ waiter.finite) ~> (waiter.pc = "done")

\* C15: a waitChannelUpdate with an expected value never loops without
\* yielding: whenever it has been woken by an update that carries another
\* value it blocks again, so that the handler can receive the next update
C15_WaiterYields ==
  waiter.pc # "spin"

\* C16: the step that ends a waitChannelUpdate, by return or by Timeout,
\* leaves a channel the call registered itself out of the registry and
\* unregistered at the server, and leaves any other channel in the registry
C16_UnregistersOwnChannel ==
  [][(/\ waiter.op \in ChannelWaitOps
      /\ waiter.pc # "done" /\ waiter'.pc = "done"
      /\ waiter'.result \in {"returned", "Timeout"}) =>
       IF waiter.selfReg
       THEN /\ VarA \notin DOMAIN registeredChannels'
            /\ VarA \notin serverReg'
       ELSE VarA \in DOMAIN registeredChannels =>
              VarA \in DOMAIN registeredChannels']_vars

\* C17: a waitChannelUpdate that registered the channel itself ignores the
\* first valueChanged it receives (no value stored, the event not set) and
\* is woken with the value of the second; one that found the channel
\* registered is woken by the first; the call does not return before
C17_FirstUpdateSkipped ==
  waiter.op \in ChannelWaitOps =>
    /\ (waiter.selfReg /\ waiter.nupd <= 1) =>
         ~waiter.updEv /\ waiter.value = NoValue
    /\ (waiter.selfReg /\ waiter.nupd >= 2) =>
         waiter.updEv /\ waiter.woke = 2 /\ waiter.value # NoValue
    /\ (~waiter.selfReg /\ waiter.nupd >= 1) =>
         waiter.updEv /\ waiter.woke = 1 /\ waiter.value # NoValue
    /\ (waiter.pc = "done" /\ waiter.result = "returned") =>
         waiter.nupd >= (IF waiter.selfReg THEN 2 ELSE 1)

\* C17 witness: a call that registered the channel itself has returned after
\* its second valueChanged
C17_Witness ==
  /\ waiter.op \in ChannelWaitOps /\ waiter.selfReg
  /\ waiter.nupd = 2 /\ waiter.pc = "done" /\ waiter.result = "returned"

\* C18: the step in which the caller kills or drops the greenlet of a
\* command whose reply has not arrived enqueues an ABORT message
C18_CancelSendsAbort ==
  [][(cmdTask.pc = "running" /\ cmdTask'.pc \in {"killed", "dropped"}) =>
       \E i \in (Len(enq) + 1)..Len(enq') :
         enq'[i].msg.cmd = "abort"]_vars

\* C19: on a CONNECTED connection, for every name that is not in the
\* registry, registerChannel(n) followed by unregisterChannel(n) leaves the
\* registry with the names it had before
C19_RegisterUnregister ==
  isSpecConnected(state) =>
    \A n \in UserNames \ DOMAIN registeredChannels :
      DOMAIN unregisterChannel(
               registerChannel(CurCtx, n, DOREG, state, socket),
               n, state, socket).reg
        = DOMAIN registeredChannels

\* C20: an emit calls every receiver of the list, in the order of the list
\* (the order of connection), whichever of them raise, and returns to its
\* caller
C20_EmitCallsAll ==
  emitLog.module # "none" =>
    emitLog.calls = emitLog.list /\ emitLog.outcome = "returned"

\* the number of times slot r was called by the emit under way or last done
TimesCalled(r) ==
  Cardinality({i \in 1..Len(emitting.calls) : emitting.calls[i] = r})

\* C21: once a weakly held receiver has been reclaimed no receiver list
\* holds an entry for it and no emit calls it, and an emit still calls each
\* of the receivers that remain in its list exactly once
C21_ReclaimedDropped ==
  /\ [](\A k \in Keys : \A i \in 1..Len(connections[k]) :
          connections[k][i].slot \in alive)
  /\ [][Len(emitting'.calls) > Len(emitting.calls) =>
          emitting'.calls[Len(emitting'.calls)] \in alive]_vars
  /\ [](emitting.pc = "done" =>
          \A i \in 1..Len(emitting.start) :
            emitting.start[i] \in alive => TimesCalled(emitting.start[i]) = 1)

\* the slot r has an entry in list
Holds(list, r) == FirstMatch(list, r) # 0

\* C22: connect is idempotent per (sender, signal, receiver): no list ever
\* holds two entries for one receiver; a connect of a receiver that is
\* already in the list changes nothing but the dispatch mode of its entry,
\* which becomes the mode given; and no call for another receiver changes
\* the mode of the entry or its place among the entries that stay
C22_ConnectIdempotent ==
  /\ [](\A k \in Keys : \A i, j \in 1..Len(connections[k]) :
          connections[k][i].slot = connections[k][j].slot => i = j)
  /\ [][(lastOp'.n # lastOp.n /\ lastOp'.op = "connect" /\ lastOp'.was # 0)
          => connections' =
               [connections EXCEPT ![lastOp'.key][lastOp'.was].mode =
                                     lastOp'.mode]]_vars
  /\ [][\A k \in Keys : \A a, b \in WeakSlots :
          (/\ Holds(connections[k], a) /\ Holds(connections'[k], a)
           /\ Holds(connections[k], b) /\ Holds(connections'[k], b)
           /\ FirstMatch(connections[k], a) < FirstMatch(connections[k], b))
          => FirstMatch(connections'[k], a) < FirstMatch(connections'[k], b)]_vars
  /\ [][\A k \in Keys : \A a \in WeakSlots :
          (/\ Holds(connections[k], a) /\ Holds(connections'[k], a)
           /\ ~(lastOp'.n # lastOp.n /\ lastOp'.op = "connect"
                /\ lastOp'.key = k /\ lastOp'.slot = a))
          => ModeAt(connections'[k], FirstMatch(connections'[k], a))
               = ModeAt(connections[k], FirstMatch(connections[k], a))]_vars

\* a receiver connected first with UPDATEVALUE, then, other receivers having
\* been connected after it, with FIREEVENT
C22_Witness ==
  /\ lastOp.op = "connect" /\ lastOp.was = 1
  /\ lastOp.old = UPDATEVALUE /\ lastOp.mode = FIREEVENT
  /\ Len(connections[lastOp.key]) >= 2
  /\ connections[lastOp.key][1] = Receiver(lastOp.slot, FIREEVENT)

\* the port on which the server of the wanted name listens, 0 if none does
MatchPort ==
  IF \E p \in ScanPorts : peers[p] = ScanName
  THEN CHOOSE p \in ScanPorts : peers[p] = ScanName
  ELSE 0

\* C23: in scan mode, when a server of the wanted name listens on a port of
\* the range, the connection eventually is CONNECTED over a socket to that
\* port, and 'connected' is emitted only on entering CONNECTED
C23_ScanConnects ==
  /\ (MatchPort # 0) ~> (isSpecConnected(state) /\ dialled = MatchPort
                          /\ lastEmit.sig = "connected")
  /\ [][(lastEmit' # lastEmit /\ lastEmit'.sig = "connected")
          => (~isSpecConnected(state) /\ isSpecConnected(state'))]_vars

\* C24: in scan mode every connection attempt targets a port of
\* MIN_PORT..MAX_PORT, and the attempt after MAX_PORT targets MIN_PORT
C24_DialsInRange ==
  /\ [](scanport /\ ndials > 0 => dialled \in ScanPorts)
  /\ [][(scanport /\ ndials' # ndials /\ dialled = MAX_PORT)
          => dialled' = MIN_PORT]_vars

\* C25: in scan mode a HELLO_REPLY of another name never leads to
\* CONNECTED; after an attempt on a port below MAX_PORT that has no server
\* of the wanted name the next attempt targets the next port; and while
\* CONNECTED conn.port is the port of the server of the wanted name
C25_PortOfMatch ==
  /\ [](scanport /\ isSpecConnected(state) => dialled = MatchPort)
  /\ [][(scanport /\ ndials' # ndials /\ dialled \in ScanPorts
         /\ dialled < MAX_PORT /\ dialled # MatchPort)
          => dialled' = dialled + 1]_vars
  /\ [](scanport /\ isSpecConnected(state) => port = MatchPort)

\* C26: in scan mode, when no server of the wanted name listens on a port
\* of the range, dialing stops after one sweep: no port is tried twice
C26_OneSweep == (scanport /\ MatchPort = 0) => ndials <= SweepLen

\* C27: when the dispatch of a frame raises, the receive loop of the
\* connection keeps running, in its frame loop, so that the frames that
\* follow in the buffer are dispatched
C27_LoopSurvives == [][(raised' /\ ~raised) => (handler' /\ parsing')]_vars

\* the reply ids handed out so far
AllocatedIds == 1..(nextId - 1)

\* the greenlet of reply.update for reply id is spawned and has not started
UpdateSpawned(id) ==
  \E i \in 1..Len(tasks) : tasks[i].kind = "reply" /\ tasks[i].id = id

\* C28 as stated: in every state a reply id is a key of registeredReplies
\* if and only if its reply has not been completed
C28_PendingIffNotDone ==
  \A id \in AllocatedIds : id \in registeredReplies <=> replyDone[id] = 0

\* C28: in every state the reply of an id that is a key of registeredReplies
\* has not been completed, and a reply that has not been completed and whose
\* id is no key is one whose update the reply dispatch has spawned: the key
\* is removed before the reply is completed
C28_PendingOnlyIfNotDone ==
  \A id \in AllocatedIds :
    /\ id \in registeredReplies => replyDone[id] = 0
    /\ (id \notin registeredReplies /\ replyDone[id] = 0) => UpdateSpawned(id)

\* the waiter of a request has timed out and the REPLY has arrived since:
\* its key has been removed and its update has not run yet
C28_Witness ==
  /\ waiter.result = "Timeout"
  /\ waiter.replyId \in AllocatedIds
  /\ waiter.replyId \notin registeredReplies
  /\ replyDone[waiter.replyId] = 0
  /\ UpdateSpawned(waiter.replyId)

(* ------------------------------------------------------------------ *)
(* Specification of a channel object receiving updates                 *)
(* ------------------------------------------------------------------ *)
NextUpd ==
  \/ \E n \in ChanNames : ChanCreate(n)
  \/ \E payload \in Payloads, deleted \in BOOLEAN, force \in BOOLEAN :
       \E order \in Orders(payload) :
         ChanUpdate(payload, deleted, force, order)

SpecUpd == Init /\ [][NextUpd]_vars

\* C29: on a channel without access path, a published mapping equal to the
\* cached value (the second EVENT { "": 7 }) calls no 'update' callback
C29_CoalesceOnEquality ==
  (updLog.n > 0 /\ channel.access1 = PyNone /\ ~updLog.deleted
     /\ ~updLog.force /\ isDict(updLog.payload) /\ updLog.payload = updLog.before)
  => updLog.calls = <<>>

\* C30: a non-deleted mapping at a channel with an access path: without the
\* key (or the subkey under it) nothing is stored or emitted; otherwise the
\* coerced leaf is stored and emitted once when it differs from the cached
\* value or force is set, and nothing is stored or emitted when it equals
\* the cached value and force is not set
Selected(ch, x) ==
  IF ~In(ch.access1, x) THEN None
  ELSE IF ch.access2 = PyNone THEN x.m[ch.access1]
  ELSE IF ~In(ch.access2, x.m[ch.access1]) THEN None
  ELSE x.m[ch.access1].m[ch.access2]

Coerced(x) ==
  IF x.t = "str" /\ x.v \in IntNumerals THEN Scalar("int", x.v)
  ELSE IF x.t = "str" /\ x.v \in FloatNumerals THEN Scalar("float", x.v)
  ELSE x

C30_LeafUpdate ==
  (updLog.n > 0 /\ channel.access1 # PyNone /\ ~updLog.deleted
     /\ isDict(updLog.payload))
  => LET before == updLog.before
         leaf == Selected([channel EXCEPT !.value = before], updLog.payload)
     IN  IF leaf = None
         THEN channel.value = before /\ updLog.out.emits = <<>>
         ELSE IF updLog.force \/ Coerced(leaf) # before
         THEN channel.value = Coerced(leaf)
              /\ updLog.out.emits = <<Coerced(leaf)>>
         ELSE channel.value = before /\ updLog.out.emits = <<>>

\* C31: on a channel without access path whose cached value is a mapping, a
\* DELETED mapping removes exactly the named entries, collapses an inner
\* mapping left with only the None key to that leaf, leaves every other
\* entry as it was, and emits valueChanged once with the resulting mapping
AfterDelete(old, named) ==
  IF ~isDict(named) THEN None
  ELSE IF ~isDict(old) THEN old
  ELSE LET left == [j \in DOMAIN old.m \ DOMAIN named.m |-> old.m[j]]
           kept == IF DOMAIN left = {} THEN <<>> ELSE left
       IN  IF DOMAIN kept = {PyNone} THEN kept[PyNone] ELSE Dict(kept)

DeletedResult(old, payload) ==
  LET keys == {k \in DOMAIN old.m :
                 k \in DOMAIN payload.m => isDict(payload.m[k])}
  IN  IF keys = {} THEN Dict(<<>>)
      ELSE Dict([k \in keys |->
                   IF k \in DOMAIN payload.m
                   THEN AfterDelete(old.m[k], payload.m[k])
                   ELSE old.m[k]])

C31_DeletedMerge ==
  (updLog.n > 0 /\ channel.access1 = PyNone /\ updLog.deleted
     /\ isDict(updLog.before) /\ isDict(updLog.payload))
  => /\ channel.value = DeletedResult(updLog.before, updLog.payload)
     /\ updLog.out.emits = <<channel.value>>

\* the entry a non-deleted mapping leaves under key k: an incoming scalar
\* meeting a cached mapping is assigned (assign = TRUE) or stored under the
\* None key of the cached mapping (assign = FALSE)
MergedEntry(old, new, k, assign) ==
  IF k \notin DOMAIN new THEN old[k]
  ELSE IF k \notin DOMAIN old THEN new[k]
  ELSE IF isDict(old[k]) /\ isDict(new[k])
  THEN Dict(DictUpdate(old[k].m, new[k].m))
  ELSE IF isDict(new[k])
  THEN Dict(DictUpdate(Put(<<>>, PyNone, old[k]), new[k].m))
  ELSE IF isDict(old[k]) /\ ~assign
  THEN Dict(Put(old[k].m, PyNone, new[k]))
  ELSE new[k]

MergedResult(old, payload, assign) ==
  Dict([k \in DOMAIN old.m \cup DOMAIN payload.m |->
          MergedEntry(old.m, payload.m, k, assign)])

MergeCase ==
  /\ updLog.n > 0 /\ channel.access1 = PyNone /\ ~updLog.deleted
  /\ isDict(updLog.before) /\ isDict(updLog.payload)

\* C32 as stated: cached and incoming mappings are merged key by key, a
\* cached scalar meeting an incoming mapping is kept under the None key,
\* and in every other case the incoming value becomes the entry
C32_MergeAssigns ==
  MergeCase => channel.value = MergedResult(updLog.before, updLog.payload, TRUE)

\* C32: as above, but an incoming scalar meeting a cached mapping is stored
\* under the None key of that mapping, whose other entries stay
C32_MergeUnderNone ==
  MergeCase
  => /\ channel.value = MergedResult(updLog.before, updLog.payload, FALSE)
     /\ updLog.out.emits = <<channel.value>>

C32_Witness ==
  /\ MergeCase
  /\ \E k \in DOMAIN updLog.payload.m \cap DOMAIN updLog.before.m :
       /\ ~isDict(updLog.payload.m[k])
       /\ isDict(updLog.before.m[k])
       /\ channel.value.m[k] =
            Dict(Put(updLog.before.m[k].m, PyNone, updLog.payload.m[k]))

\* C33: the first bytes written to the socket of a session (wire holds what
\* was written to it since create_connection) are those of the HELLO that
\* makeConnection sent for that session, not bytes queued before it
C33_HelloFirst ==
  \A i \in 1..Len(wire) :
    i <= MsgLen => wire[i] = sendingString(Msg("HELLO", <<>>, 0))[i]

(* ------------------------------------------------------------------ *)
(* Specification of a command object invoked again before its reply    *)
(* ------------------------------------------------------------------ *)
NextInflight ==
  \/ \E keep \in BOOLEAN : executeCommand(keep)
  \/ \E id \in 1..MaxInvocations : cmdReplyArrived(id)
  \/ \E i \in 1..MaxInvocations : wait_end_of_spec_cmd(i)

SpecInflight == Init /\ [][NextInflight]_vars

\* C34: an invocation of a command object completes with the reply to its
\* own request, whatever other invocations are in flight and in whatever
\* order the replies arrive
C34_OwnReply ==
  \A i \in DOMAIN cmdObj.inv :
    cmdObj.inv[i].pc = "done" => cmdObj.inv[i].got = i

\* C35: a step that takes the sub-key channel var/A/k out of the registry
\* while var/A stays in it leaves var/A registered on the server
C35_SharedRegistration ==
  [][(/\ VarAk \in DOMAIN registeredChannels
      /\ VarAk \notin DOMAIN registeredChannels'
      /\ VarA \in DOMAIN registeredChannels'
      /\ VarA \in serverReg)
     => VarA \in serverReg']_vars

\* C36: whenever the connection is CONNECTED, the service channels 'error'
\* and 'status/simulate' are in the registry and registered on the server
C36_ServiceChannels ==
  isSpecConnected(state) =>
    /\ {ErrorChan, SimulChan} \subseteq DOMAIN registeredChannels
    /\ {ErrorChan, SimulChan} \subseteq serverReg

(* ------------------------------------------------------------------ *)
(* Specification of receivers that connect and disconnect in an emit   *)
(* ------------------------------------------------------------------ *)
NextReenter ==
  \/ \E k \in Keys, r \in WeakSlots, m \in Modes : WeakConnect(k, r, m)
  \/ \E k \in Keys, r \in WeakSlots : WeakDisconnect(k, r)
  \/ \E k \in Keys : WeakEmitBegin(k)
  \/ WeakEmitStep
  \/ \E r \in WeakSlots : ReceiverDisconnects(r)
  \/ \E r \in WeakSlots, m \in Modes : ReceiverConnects(r, m)

SpecReenter == Init /\ [][NextReenter]_vars

\* C37: when an emit has ended, every receiver that was in the list when it
\* started and that no receiver disconnected meanwhile was called once
C37_EmitSurvivesChanges ==
  emitting.pc = "done" =>
    \A i \in 1..Len(emitting.start) :
      emitting.start[i] \notin emitting.disconnected
        => TimesCalled(emitting.start[i]) = 1

\* C38: 'connected' and 'disconnected' alternate, 'connected' first: a step
\* that emits 'connected' (it enters CONNECTED) follows no emit or an emit
\* of 'disconnected', and a step that emits 'disconnected' (it leaves
\* CONNECTED through specDisconnected) follows an emit of 'connected'
C38_SignalsAlternate ==
  [][/\ (state # CONNECTED /\ state' = CONNECTED)
          => (lastEmit.sig # "connected" /\ lastEmit'.sig = "connected")
     /\ (state = CONNECTED /\ state' = DISCONNECTED)
          => (lastEmit.sig = "connected" /\ lastEmit'.sig = "disconnected")
     /\ (lastEmit' # lastEmit)
          => (state = CONNECTED) # (state' = CONNECTED)]_vars

\* C38 witness: a socket of the connection was closed (which empties the
\* registry), the connection is CONNECTED on a later socket, 'connected'
\* was the last signal, and a further HELLO_REPLY was received meanwhile
C38_Witness ==
  /\ disruptions >= 1 /\ registeredChannels = <<>>
  /\ isSpecConnected(state) /\ socket.open /\ ~eof
  /\ lastEmit.sig = "connected"
  /\ tasks # <<>>
  /\ Head(tasks).kind = "specConnected" /\ Head(tasks).data = CONNECTED

\* C39: in every state another greenlet can observe, and in the state the
\* receivers of 'connected' and 'disconnected' observe, the connected latch
\* is set iff the state is CONNECTED
C39_LatchIffConnected ==
  /\ connected_event <=> isSpecConnected(state)
  /\ lastEmit.sig # "none" => (lastEmit.latch <=> isSpecConnected(lastEmit.st))

(* ------------------------------------------------------------------ *)
(* Specification of the counter state of a counter facade              *)
(* ------------------------------------------------------------------ *)
NextCounter ==
  \/ \E v \in CountValues : CounterStateChanged(v)
  \/ \E v \in CountValues : CounterGetState(v)

SpecCounter == Init /\ [][NextCounter]_vars

\* C40: once an update of scaler/.all./count was delivered, getState()
\* returns COUNTING if its value was not 0 and NOTCOUNTING if it was 0, the
\* state the callback counterStateChanged was called with; before the first
\* update it returns NOTINITIALIZED
C40_GetState ==
  LET n == Len(counter.updates)
      expected == IF n = 0 THEN NOTINITIALIZED
                  ELSE IF counter.updates[n] = 0 THEN NOTCOUNTING
                  ELSE COUNTING
  IN  /\ getState(counter) = expected
      /\ n > 0 => counter.cb = expected
      /\ counter.asked => counter.ret = expected

====
